---- MODULE Spec2Model ----
(***************************************************************************)
(* LangFord: a supervising agent ("langford") that delegates to calendar,  *)
(* email, news and weather agents.  The model covers                        *)
(*   - core/langford_service.py  (init_langford, run_langford)             *)
(*   - cli_langford.py           (repl)                                     *)
(*   - interface/telegram_bot.py (main, handle_message)                     *)
(*   - agent.py                  (the legacy repl, handle_brief)            *)
(*   - tools/calendar/*.py       (check_events, create_events)              *)
(* Text is modelled as a sequence of one-character strings so that strip() *)
(* and lower() are computed, not assumed.                                   *)
(***************************************************************************)
EXTENDS Integers, Sequences, FiniteSets, TLC

VARIABLES
    frontend,   \* which program runs: "cli", "telegram", "legacy", "tool", ...
    pc,         \* position of the program's main loop
    butler,     \* core.langford_service._butler (NoButler = None)
    memory,     \* the turns held by the conversational agent (its session)
    history,    \* llm.history of the legacy repl
    runs,       \* log of the controller runtime's invocations (agent.run calls)
    inflight,   \* utterances whose handling has begun and not yet ended
    queue,      \* telegram updates fetched and not yet dispatched
    outs,       \* what was printed / replied, in order
    uidc,       \* number of utterances that have arrived so far
    call,       \* the operation invocation under way: its name and arguments
    tpc,        \* position inside the operation
    net,        \* the network requests the invocation has made, in order
    locals,     \* what the operation has computed so far (body, query window)
    ret         \* the value the operation returned

convvars == <<frontend, pc, butler, memory, history, runs, inflight, queue, outs, uidc>>

toolvars == <<call, tpc, net, locals, ret>>

vars == <<convvars, toolvars>>

(***************************************************************************)
(* Bounds of the model                                                     *)
(***************************************************************************)
MaxUtterances == 3      \* utterances per behaviour
MaxDelegations == 2     \* delegated steps the runtime takes in one run
MaxBatch == 3           \* messages in one answer of the mailbox
MaxItems == 3           \* items in one answer of a news source

(***************************************************************************)
(* Text                                                                    *)
(***************************************************************************)
Whitespace == {" ", "\t", "\n"}

UpperCase == <<"A","B","C","D","E","F","G","H","I","J","K","L","M",
               "N","O","P","Q","R","S","T","U","V","W","X","Y","Z">>

LowerCase == <<"a","b","c","d","e","f","g","h","i","j","k","l","m",
               "n","o","p","q","r","s","t","u","v","w","x","y","z">>

LowerChar(c) ==
    IF \E i \in 1..26 : UpperCase[i] = c
    THEN LowerCase[CHOOSE i \in 1..26 : UpperCase[i] = c]
    ELSE c

\* str.lower()
lower(s) == [i \in 1..Len(s) |-> LowerChar(s[i])]

RECURSIVE lstrip(_)
lstrip(s) == IF s # <<>> /\ Head(s) \in Whitespace THEN lstrip(Tail(s)) ELSE s

RECURSIVE rstrip(_)
rstrip(s) ==
    IF s # <<>> /\ s[Len(s)] \in Whitespace
    THEN rstrip(SubSeq(s, 1, Len(s) - 1))
    ELSE s

\* str.strip()
strip(s) == rstrip(lstrip(s))

(***************************************************************************)
(* Literals of the source                                                  *)
(***************************************************************************)
kw_brief == <<"b", "r", "i", "e", "f">>

BriefQuery ==
    <<"P", "l", "e", "a", "s", "e", " ", "p", "r", "o", "v", "i", "d", "e", " ",
      "m", "y", " ", "f", "u", "l", "l", " ", "m", "o", "r", "n", "i", "n", "g",
      " ", "e", "x", "e", "c", "u", "t", "i", "v", "e", " ", "b", "r", "i", "e",
      "f", " ", "f", "o", "r", " ", "t", "o", "d", "a", "y", ".">>

cli_exit_words_noq == {<<"e", "x", "i", "t">>, <<"q", "u", "i", "t">>}

cli_exit_words == {<<"e", "x", "i", "t">>, <<"q", "u", "i", "t">>, <<"q">>}

legacy_exit_words == {<<"e", "x", "i", "t">>, <<"q", "u", "i", "t">>, <<"q">>}

legacy_purge_words ==
    {<<"p", "u", "r", "g", "e">>, <<"r", "e", "s", "e", "t">>,
     <<"c", "l", "e", "a", "r">>, <<"r", "e", "s", "t", "a", "r", "t">>}

butler_max_steps == 8

legacy_main_max_step == 6

legacy_brief_max_step == 10

(***************************************************************************)
(* Inputs                                                                  *)
(***************************************************************************)
CliInputs ==
    { <<"b", "r", "i", "e", "f">>,
      <<" ", "B", "r", "i", "E", "f", "\n">>,
      <<"b", "r", "i", "e", "f", " ", "m", "e">>,
      <<"p", "u", "r", "g", "e">>,
      <<"R", "e", "s", "e", "t", " ">>,
      <<"e", "x", "i", "t">>,
      <<"Q">>,
      <<" ", "H", "i">>,
      <<" ">> }

TgTexts ==
    { <<" ", "B", "r", "i", "E", "f", "\n">>,
      <<"b", "r", "i", "e", "f", " ", "m", "e">>,
      <<" ", "H", "i">> }

Chats == {1, 2}

Outcomes == {"ok", "raise"}

(***************************************************************************)
(* Delegate roster (core/managed_agents.py, agents/*.py)                   *)
(***************************************************************************)
calendar_agent ==
    [name |-> "calendar_agent",
     tools |-> <<"check_events", "create_events", "resolve_date_expression">>]

email_agent == [name |-> "email_agent", tools |-> <<"check_mails">>]

news_agent ==
    [name |-> "news_agent",
     tools |-> <<"news_report", "get_financial_market_updates">>]

weather_agent == [name |-> "weather_agent", tools |-> <<"get_weather">>]

build_agents ==
    [calendar |-> calendar_agent, email |-> email_agent,
     news |-> news_agent, weather |-> weather_agent]

NoButler == [built |-> FALSE, name |-> "", max_steps |-> 0, managed_agents |-> <<>>]

\* init_langford(): constructs the supervisor unless it already exists
init_langford(b) ==
    IF b.built
    THEN b
    ELSE LET agents == build_agents
         IN [built |-> TRUE, name |-> "langford", max_steps |-> butler_max_steps,
             managed_agents |->
                 <<agents.calendar, agents.email, agents.news, agents.weather>>]

(***************************************************************************)
(* The controller runtime, as far as the program relies on it              *)
(***************************************************************************)
TaskStep(uid, task) == [uid |-> uid, kind |-> "task", text |-> task]

AnswerStep(uid) == [uid |-> uid, kind |-> "answer", text |-> <<>>]

\* agent.run(task, reset): with reset the agent's memory is dropped first;
\* the task is then appended and stays in memory whatever the outcome.
agent_run_begin(mem, uid, task, reset) ==
    (IF reset THEN <<>> ELSE mem) \o <<TaskStep(uid, task)>>

\* a run that returns appends its final answer; a run that raises does not
agent_run_end(mem, uid, outcome) ==
    IF outcome = "ok" THEN Append(mem, AnswerStep(uid)) ELSE mem

(***************************************************************************)
(* core/langford_service.py: run_langford                                  *)
(***************************************************************************)
run_langford_noreset(message) ==
    LET msg == strip(message)
    IN  IF lower(msg) = kw_brief
        THEN [task |-> BriefQuery, reset |-> FALSE]
        ELSE [task |-> msg, reset |-> FALSE]

run_langford_prefix(message) ==
    LET msg == strip(message)
    IN  IF Len(msg) >= 5 /\ lower(SubSeq(msg, 1, 5)) = kw_brief
        THEN [task |-> BriefQuery, reset |-> TRUE]
        ELSE [task |-> msg, reset |-> FALSE]

run_langford_allreset(message) ==
    LET msg == strip(message)
    IN  IF lower(msg) = kw_brief
        THEN [task |-> BriefQuery, reset |-> TRUE]
        ELSE [task |-> msg, reset |-> TRUE]

\* the call run_langford makes on _butler: which task, and whether to reset
run_langford(message) ==
    LET msg == strip(message)
    IN  IF lower(msg) = kw_brief
        THEN [task |-> BriefQuery, reset |-> TRUE]
        ELSE [task |-> msg, reset |-> FALSE]

RunRecord(uid, chat, agent, message, req, steps, mem) ==
    [uid |-> uid, chat |-> chat, agent |-> agent, message |-> message,
     task |-> req.task, reset |-> req.reset, max_steps |-> steps,
     context |-> agent_run_begin(mem, uid, req.task, req.reset)]

\* run_langford up to the point where _butler.run is executing
BeginLangford(uid, chat, message) ==
    LET req == run_langford(message)
    IN  /\ butler.built          \* assert _butler is not None
        /\ memory' = agent_run_begin(memory, uid, req.task, req.reset)
        /\ runs' = Append(runs,
                RunRecord(uid, chat, "langford", message, req, butler.max_steps, memory))
        /\ inflight' = inflight \cup
                {[uid |-> uid, chat |-> chat, pc |-> "run", steps |-> 0, reply |-> ""]}

\* one step of the runtime inside _butler.run: a delegate is called and returns
RunStep ==
    /\ \E h \in inflight :
        /\ h.pc = "run"
        /\ h.steps < butler.max_steps
        /\ h.steps < MaxDelegations
        /\ \E d \in 1..Len(butler.managed_agents) :
              inflight' = (inflight \ {h}) \cup {[h EXCEPT !.steps = h.steps + 1]}
    /\ UNCHANGED <<frontend, pc, butler, memory, history, runs, queue, outs, uidc, toolvars>>

(***************************************************************************)
(* cli_langford.py: repl                                                   *)
(***************************************************************************)
CliStart ==
    /\ frontend = "cli" /\ pc = "boot"
    /\ butler' = init_langford(butler)
    /\ pc' = "input"
    /\ UNCHANGED <<frontend, memory, history, runs, inflight, queue, outs, uidc, toolvars>>

\* one pass of the loop from input() up to the call of run_langford
CliInput(text) ==
    /\ frontend = "cli" /\ pc = "input"
    /\ uidc < MaxUtterances
    /\ uidc' = uidc + 1
    /\ LET user_msg == strip(text)
           uid == uidc + 1
       IN  IF user_msg = <<>>
           THEN UNCHANGED <<pc, memory, runs, inflight, outs>>
           ELSE IF lower(user_msg) \in cli_exit_words
           THEN /\ outs' = Append(outs, [uid |-> uid, chat |-> 0, kind |-> "bye"])
                /\ pc' = "exited"
                /\ UNCHANGED <<memory, runs, inflight>>
           ELSE /\ BeginLangford(uid, 0, user_msg)
                /\ pc' = "running"
                /\ UNCHANGED outs
    /\ UNCHANGED <<frontend, butler, history, queue, toolvars>>

\* KeyboardInterrupt / EOFError at input()
CliInterrupt ==
    /\ frontend = "cli" /\ pc = "input"
    /\ outs' = Append(outs, [uid |-> 0, chat |-> 0, kind |-> "bye"])
    /\ pc' = "exited"
    /\ UNCHANGED <<frontend, butler, memory, history, runs, inflight, queue, uidc, toolvars>>

\* run_langford returns or raises; the loop prints the result, or the line
\* that formats the exception into its text, and goes back to input()
CliRunReturn(outcome) ==
    /\ frontend = "cli" /\ pc = "running"
    /\ \E h \in inflight :
        /\ h.pc = "run"
        /\ memory' = agent_run_end(memory, h.uid, outcome)
        /\ outs' = Append(outs, [uid |-> h.uid, chat |-> 0,
                                 kind |-> IF outcome = "ok" THEN "reply"
                                          ELSE "[error in backend: {exc}]"])
        /\ inflight' = inflight \ {h}
    /\ pc' = "input"
    /\ UNCHANGED <<frontend, butler, history, runs, queue, uidc, toolvars>>

(***************************************************************************)
(* interface/telegram_bot.py: main, handle_message                         *)
(***************************************************************************)
TgStart ==
    /\ frontend = "telegram" /\ pc = "boot"
    /\ butler' = init_langford(butler)
    /\ \E token \in BOOLEAN :
          pc' = IF token THEN "polling" ELSE "crashed"
    /\ UNCHANGED <<frontend, memory, history, runs, inflight, queue, outs, uidc, toolvars>>

\* run_polling fetches an update: a text message of some chat
TgReceive(chat, text) ==
    /\ frontend = "telegram" /\ pc = "polling"
    /\ uidc < MaxUtterances
    /\ uidc' = uidc + 1
    /\ queue' = Append(queue, [uid |-> uidc + 1, chat |-> chat, text |-> text])
    /\ UNCHANGED <<frontend, pc, butler, memory, history, runs, inflight, outs, toolvars>>

ConcurrentUpdates == TRUE

\* the application processes updates one after the other: the next update is
\* dispatched only when no handler call is pending
SequentialUpdates == inflight = {}

\* handle_message up to the call of run_langford
TgDispatch ==
    /\ frontend = "telegram" /\ pc = "polling"
    /\ queue # <<>>
    /\ SequentialUpdates
    /\ LET u == Head(queue)
       IN  /\ queue' = Tail(queue)
           /\ IF u.text = <<>>
              THEN UNCHANGED <<memory, runs, inflight>>
              ELSE BeginLangford(u.uid, u.chat, u.text)
    /\ UNCHANGED <<frontend, pc, butler, history, outs, uidc, toolvars>>

\* run_langford returns or raises inside handle_message; the reply to an
\* exception is a fixed sentence
TgRunReturn(outcome) ==
    /\ frontend = "telegram"
    /\ \E h \in inflight :
        /\ h.pc = "run"
        /\ memory' = agent_run_end(memory, h.uid, outcome)
        /\ inflight' = (inflight \ {h}) \cup
              {[h EXCEPT !.pc = "reply",
                         !.reply = IF outcome = "ok" THEN "reply"
                                   ELSE "Something went wrong in the backend. Please try again in a moment."]}
    /\ UNCHANGED <<frontend, pc, butler, history, runs, queue, outs, uidc, toolvars>>

\* await update.message.reply_text(reply) completes
TgReplied ==
    /\ frontend = "telegram"
    /\ \E h \in inflight :
        /\ h.pc = "reply"
        /\ outs' = Append(outs, [uid |-> h.uid, chat |-> h.chat, kind |-> h.reply])
        /\ inflight' = inflight \ {h}
    /\ UNCHANGED <<frontend, pc, butler, memory, history, runs, queue, uidc, toolvars>>

(***************************************************************************)
(* agent.py: the legacy repl                                               *)
(***************************************************************************)
remember(h, role, uid) == Append(h, [role |-> role, uid |-> uid])

LegacyStart ==
    /\ frontend = "legacy" /\ pc = "boot"
    /\ memory' = <<>>       \* agent = create_agent(llm, system_prompt)
    /\ history' = <<>>      \* llm = llm_object()
    /\ pc' = "input"
    /\ UNCHANGED <<frontend, butler, runs, inflight, queue, outs, uidc, toolvars>>

\* one pass of the loop of repl(); o1 is the outcome of the brief agent's run,
\* o2 the outcome of the main agent's run (neither is caught by the loop)
LegacyTurn(text, o1, o2) ==
    /\ frontend = "legacy" /\ pc = "input"
    /\ uidc < MaxUtterances
    /\ uidc' = uidc + 1
    /\ LET user_msg == strip(text)
           uid == uidc + 1
           low == lower(user_msg)
           isBrief == low = kw_brief
           briefCall == [task |-> kw_brief, reset |-> TRUE]
           \* handle_brief
           h1 == IF isBrief THEN remember(history, "user", uid) ELSE history
           r1 == IF isBrief
                 THEN Append(runs, RunRecord(uid, 0, "brief", user_msg, briefCall,
                                             legacy_brief_max_step, <<>>))
                 ELSE runs
           crash1 == isBrief /\ o1 = "raise"
           h2 == IF isBrief /\ ~crash1 THEN remember(h1, "assistant", uid) ELSE h1
           mainCall == [task |-> user_msg, reset |-> FALSE]
       IN  IF user_msg = <<>>
           THEN UNCHANGED <<pc, memory, history, runs, outs>>
           ELSE IF crash1
           THEN /\ pc' = "crashed"
                /\ history' = h1
                /\ runs' = r1
                /\ UNCHANGED <<memory, outs>>
           ELSE IF low \in legacy_purge_words
           THEN /\ memory' = <<>>      \* agent = create_agent(llm, system_prompt)
                /\ outs' = Append(outs, [uid |-> uid, chat |-> 0, kind |-> "cleared"])
                /\ history' = h2
                /\ runs' = r1
                /\ UNCHANGED pc
           ELSE IF low \in legacy_exit_words
           THEN /\ outs' = Append(outs, [uid |-> uid, chat |-> 0, kind |-> "bye"])
                /\ pc' = "exited"
                /\ history' = h2
                /\ runs' = r1
                /\ UNCHANGED memory
           ELSE /\ runs' = Append(r1, RunRecord(uid, 0, "main", user_msg, mainCall,
                                                legacy_main_max_step, memory))
                /\ memory' = agent_run_end(
                        agent_run_begin(memory, uid, user_msg, FALSE), uid, o2)
                /\ IF o2 = "ok"
                   THEN /\ history' = remember(remember(h2, "user", uid), "assistant", uid)
                        /\ outs' = Append(outs, [uid |-> uid, chat |-> 0, kind |-> "reply"])
                        /\ UNCHANGED pc
                   ELSE /\ history' = remember(h2, "user", uid)
                        /\ pc' = "crashed"
                        /\ UNCHANGED outs
    /\ UNCHANGED <<frontend, butler, inflight, queue, toolvars>>

LegacyInterrupt ==
    /\ frontend = "legacy" /\ pc = "input"
    /\ outs' = Append(outs, [uid |-> 0, chat |-> 0, kind |-> "bye"])
    /\ pc' = "exited"
    /\ UNCHANGED <<frontend, butler, memory, history, runs, inflight, queue, uidc, toolvars>>

(***************************************************************************)
(* telegram_agent.py: main, run_agent, handle_message                      *)
(***************************************************************************)
\* main(): init_agents(), then the token test
TaStart ==
    /\ frontend = "telegram_agent" /\ pc = "boot"
    /\ memory' = <<>>       \* main_agent = create_agent(llm, system_prompt)
    /\ history' = <<>>      \* llm = llm_object()
    /\ \E token \in BOOLEAN :
          pc' = IF token THEN "polling" ELSE "crashed"
    /\ UNCHANGED <<frontend, butler, runs, inflight, queue, outs, uidc, toolvars>>

\* handle_message for one text message: run_agent inside the try block, then
\* the reply; outcome is the outcome of the agent's run
TaHandleMessage(text, outcome) ==
    /\ frontend = "telegram_agent" /\ pc = "polling"
    /\ uidc < MaxUtterances
    /\ uidc' = uidc + 1
    /\ LET user_msg == strip(text)
           uid == uidc + 1
       IN  /\ IF lower(user_msg) = kw_brief
              THEN /\ runs' = Append(runs, RunRecord(uid, 0, "brief", user_msg,
                                        [task |-> kw_brief, reset |-> TRUE],
                                        legacy_brief_max_step, <<>>))
                   /\ UNCHANGED <<memory, history>>
              ELSE /\ runs' = Append(runs, RunRecord(uid, 0, "main", user_msg,
                                        [task |-> user_msg, reset |-> FALSE],
                                        legacy_main_max_step, memory))
                   /\ memory' = agent_run_end(
                            agent_run_begin(memory, uid, user_msg, FALSE), uid, outcome)
                   /\ history' = IF outcome = "ok"
                                 THEN remember(remember(history, "user", uid), "assistant", uid)
                                 ELSE remember(history, "user", uid)
           /\ outs' = Append(outs, [uid |-> uid, chat |-> 0,
                        kind |-> IF outcome = "ok" THEN "reply"
                                 ELSE "Something went wrong in the backend. Please try again in a moment."])
    /\ UNCHANGED <<frontend, pc, butler, inflight, queue, toolvars>>

(***************************************************************************)
(* Values an operation receives from the runtime: None, bool, int, float,  *)
(* str, a list, or a dict whose values are such values                     *)
(***************************************************************************)
PyNone == [t |-> "none", s |-> <<>>, n |-> 0, d |-> <<>>]

PyStr(chars) == [t |-> "str", s |-> chars, n |-> 0, d |-> <<>>]

PyInt(k) == [t |-> "int", s |-> <<>>, n |-> k, d |-> <<>>]

PyBool(b) == [t |-> "bool", s |-> <<>>, n |-> IF b THEN 1 ELSE 0, d |-> <<>>]

PyDict(f) == [t |-> "dict", s |-> <<>>, n |-> 0, d |-> f]

\* a finite float with one decimal place, given in tenths: PyFloat(25) is 2.5
PyFloat(tenths) == [t |-> "float", s |-> <<>>, n |-> tenths, d |-> <<>>]

\* float('nan'), float('inf')
PyFloatNaN == [t |-> "float", s |-> <<"n", "a", "n">>, n |-> 1, d |-> <<>>]

PyFloatInf == [t |-> "float", s |-> <<"i", "n", "f">>, n |-> 1, d |-> <<>>]

\* a list of one-digit integers, each written by its digit: PyList(<<"1", "2">>) is [1, 2]
PyList(items) == [t |-> "list", s |-> items, n |-> 0, d |-> <<>>]

\* dict.get(key)
get(v, key) == IF key \in DOMAIN v.d THEN v.d[key] ELSE PyNone

Digits == <<"0", "1", "2", "3", "4", "5", "6", "7", "8", "9">>

IsDigit(c) == \E i \in 1..10 : Digits[i] = c

DigitVal(c) == (CHOOSE i \in 1..10 : Digits[i] = c) - 1

AllDigits(s) == \A i \in 1..Len(s) : IsDigit(s[i])

\* int(s) of a string of decimal digits
RECURSIVE ParseNat(_)
ParseNat(s) ==
    IF s = <<>> THEN 0
    ELSE 10 * ParseNat(SubSeq(s, 1, Len(s) - 1)) + DigitVal(s[Len(s)])

\* the decimal digits of a natural number
RECURSIVE NatStr(_)
NatStr(k) ==
    IF k < 10 THEN <<Digits[k + 1]>>
    ELSE NatStr(k \div 10) \o <<Digits[(k % 10) + 1]>>

\* zero-padded to at least w digits, as in '%04d' / '%02d'
RECURSIVE Pad(_, _)
Pad(k, w) == IF Len(NatStr(k)) >= w THEN NatStr(k) ELSE <<"0">> \o Pad(k, w - 1)

\* str(k) of an integer
IntStr(k) == IF k < 0 THEN <<"-">> \o NatStr(-k) ELSE NatStr(k)

\* ', '.join of the items of a list
RECURSIVE JoinItems(_)
JoinItems(items) ==
    IF Len(items) <= 1 THEN items
    ELSE <<items[1], ",", " ">> \o JoinItems(Tail(items))

\* str(value) for the values that reach it
str(v) ==
    CASE v.t = "str" -> v.s
      [] v.t = "none" -> <<"N", "o", "n", "e">>
      [] v.t = "bool" -> IF v.n = 1 THEN <<"T", "r", "u", "e">>
                                    ELSE <<"F", "a", "l", "s", "e">>
      [] v.t = "int" -> IntStr(v.n)
      [] v.t = "float" ->
            IF v.s # <<>> THEN v.s
            ELSE LET a == IF v.n < 0 THEN -v.n ELSE v.n
                 IN  (IF v.n < 0 THEN <<"-">> ELSE <<>>) \o NatStr(a \div 10)
                        \o <<".">> \o NatStr(a % 10)
      [] v.t = "list" -> <<"[">> \o JoinItems(v.s) \o <<"]">>
      [] OTHER -> <<"{", "}">>

(***************************************************************************)
(* Calendar dates                                                          *)
(***************************************************************************)
IsLeap(y) == (y % 4 = 0 /\ y % 100 # 0) \/ y % 400 = 0

DaysInMonth(y, m) ==
    IF m = 2 THEN (IF IsLeap(y) THEN 29 ELSE 28)
    ELSE IF m \in {4, 6, 9, 11} THEN 30 ELSE 31

\* days since 1970-01-01 of a civil date
toordinal(y, m, d) ==
    LET yy == IF m <= 2 THEN y - 1 ELSE y
        era == yy \div 400
        yoe == yy - era * 400
        mp == IF m > 2 THEN m - 3 ELSE m + 9
        doy == (153 * mp + 2) \div 5 + d - 1
        doe == yoe * 365 + yoe \div 4 - yoe \div 100 + doy
    IN  era * 146097 + doe - 719468

\* the civil date of a day number
fromordinal(z) ==
    LET zz == z + 719468
        era == zz \div 146097
        doe == zz - era * 146097
        yoe == (doe - doe \div 1460 + doe \div 36524 - doe \div 146096) \div 365
        doy == doe - (365 * yoe + yoe \div 4 - yoe \div 100)
        mp == (5 * doy + 2) \div 153
        d == doy - (153 * mp + 2) \div 5 + 1
        m == IF mp < 10 THEN mp + 3 ELSE mp - 9
        y == yoe + era * 400
    IN  [y |-> IF m <= 2 THEN y + 1 ELSE y, m |-> m, d |-> d]

NoDateTime ==
    [ok |-> FALSE, y |-> 0, m |-> 0, d |-> 0, hh |-> 0, mi |-> 0, ss |-> 0,
     aware |-> FALSE, off |-> 0]

DateTime(y, m, d, hh, mi, ss, aware, off) ==
    [ok |-> TRUE, y |-> y, m |-> m, d |-> d, hh |-> hh, mi |-> mi, ss |-> ss,
     aware |-> aware, off |-> off]

\* dt + timedelta(minutes = k): arithmetic on the wall clock, tzinfo kept
plus_minutes(dt, k) ==
    LET total == toordinal(dt.y, dt.m, dt.d) * 1440 + dt.hh * 60 + dt.mi + k
        day == fromordinal(total \div 1440)
        rest == total % 1440
    IN  DateTime(day.y, day.m, day.d, rest \div 60, rest % 60, dt.ss, dt.aware, dt.off)

plus_days_inclusive(dt, k) == plus_minutes(dt, 1440 * (k - 1))

\* dt + timedelta(days = k)
plus_days(dt, k) == plus_minutes(dt, 1440 * k)

\* datetime.date()
date_of(dt) == DateTime(dt.y, dt.m, dt.d, 0, 0, 0, FALSE, 0)

\* 'HH', 'HH:MM' or 'HH:MM:SS'
ParseClock(s) ==
    LET two(i) == IF Len(s) >= i + 1 /\ AllDigits(SubSeq(s, i, i + 1))
                  THEN ParseNat(SubSeq(s, i, i + 1)) ELSE 99
        shape == \/ Len(s) = 2
                 \/ Len(s) = 5 /\ s[3] = ":"
                 \/ Len(s) = 8 /\ s[3] = ":" /\ s[6] = ":"
        hh == two(1)
        mi == IF Len(s) >= 5 THEN two(4) ELSE 0
        ss == IF Len(s) >= 8 THEN two(7) ELSE 0
    IN  IF shape /\ hh <= 23 /\ mi <= 59 /\ ss <= 59
        THEN [ok |-> TRUE, hh |-> hh, mi |-> mi, ss |-> ss]
        ELSE [ok |-> FALSE, hh |-> 0, mi |-> 0, ss |-> 0]

\* '+HH:MM' or '-HH:MM', in minutes
ParseOffset(s) ==
    LET c == ParseClock(SubSeq(s, 2, Len(s)))
    IN  IF Len(s) = 6 /\ s[1] \in {"+", "-"} /\ c.ok
        THEN [ok |-> TRUE, off |-> (IF s[1] = "-" THEN -1 ELSE 1) * (c.hh * 60 + c.mi)]
        ELSE [ok |-> FALSE, off |-> 0]

\* datetime.fromisoformat for 'YYYY-MM-DD', optionally followed by one
\* separator character, a clock and a UTC offset; every other text (of the
\* texts the model feeds it) makes it raise ValueError: ok = FALSE
fromisoformat(s) ==
    LET shape == /\ Len(s) >= 10
                 /\ AllDigits(SubSeq(s, 1, 4)) /\ s[5] = "-"
                 /\ AllDigits(SubSeq(s, 6, 7)) /\ s[8] = "-"
                 /\ AllDigits(SubSeq(s, 9, 10))
        y == ParseNat(SubSeq(s, 1, 4))
        m == ParseNat(SubSeq(s, 6, 7))
        d == ParseNat(SubSeq(s, 9, 10))
        valid == shape /\ y >= 1 /\ m \in 1..12 /\ d >= 1 /\ d <= DaysInMonth(y, m)
        rest == SubSeq(s, 12, Len(s))
        signs == {i \in 1..Len(rest) : rest[i] \in {"+", "-"}}
        cut == IF signs = {} THEN Len(rest) + 1 ELSE CHOOSE i \in signs : \A j \in signs : i <= j
        clock == ParseClock(SubSeq(rest, 1, cut - 1))
        offset == ParseOffset(SubSeq(rest, cut, Len(rest)))
    IN  IF ~valid THEN NoDateTime
        ELSE IF Len(s) = 10 THEN DateTime(y, m, d, 0, 0, 0, FALSE, 0)
        ELSE IF Len(s) = 11 \/ ~clock.ok THEN NoDateTime
        ELSE IF signs = {} THEN DateTime(y, m, d, clock.hh, clock.mi, clock.ss, FALSE, 0)
        ELSE IF offset.ok THEN DateTime(y, m, d, clock.hh, clock.mi, clock.ss, TRUE, offset.off)
        ELSE NoDateTime

\* date.isoformat()
date_isoformat(dt) == Pad(dt.y, 4) \o <<"-">> \o Pad(dt.m, 2) \o <<"-">> \o Pad(dt.d, 2)

\* datetime.isoformat()
isoformat(dt) ==
    date_isoformat(dt) \o <<"T">> \o Pad(dt.hh, 2) \o <<":">> \o Pad(dt.mi, 2)
        \o <<":">> \o Pad(dt.ss, 2)
        \o (IF ~dt.aware THEN <<>>
            ELSE LET a == IF dt.off < 0 THEN -dt.off ELSE dt.off
                 IN  <<IF dt.off < 0 THEN "-" ELSE "+">> \o Pad(a \div 60, 2)
                        \o <<":">> \o Pad(a % 60, 2))

\* UTC offset of CALENDAR_TIMEZONE (Europe/Vienna) in minutes.  The dates the
\* model feeds the operations lie between the last Sunday of October and the
\* last Sunday of March, where the zone is at UTC+01:00.
calendar_utcoffset(dt) == 60

\* dt.replace(tzinfo = ZoneInfo(CALENDAR_TIMEZONE))
replace_tz_calendar(dt) == [dt EXCEPT !.aware = TRUE, !.off = calendar_utcoffset(dt)]

\* dt.astimezone(ZoneInfo(CALENDAR_TIMEZONE))
astimezone_calendar(dt) ==
    LET utc == plus_minutes(dt, -dt.off)
    IN  [plus_minutes(utc, calendar_utcoffset(utc)) EXCEPT
            !.aware = TRUE, !.off = calendar_utcoffset(utc)]

\* dt.replace(tzinfo = timezone.utc)
replace_tz_utc(dt) == [dt EXCEPT !.aware = TRUE, !.off = 0]

(***************************************************************************)
(* tools/calendar/create_events.py: the coercions                          *)
(***************************************************************************)
TrueWords ==
    {<<"t", "r", "u", "e">>, <<"1">>, <<"y", "e", "s">>, <<"y">>, <<"o", "n">>}

\* bool(value)
bool(value) ==
    CASE value.t \in {"bool", "int", "float"} -> value.n # 0
      [] value.t = "str" -> value.s # <<>>
      [] value.t = "dict" -> DOMAIN value.d # {}
      [] value.t = "list" -> value.s # <<>>
      [] OTHER -> FALSE

_to_bool_nostrip(value) ==
    CASE value.t = "bool" -> value.n = 1
      [] value.t = "str" -> lower(value.s) \in TrueWords
      [] OTHER -> bool(value)

_to_bool(value) ==
    CASE value.t = "bool" -> value.n = 1
      [] value.t = "str" -> lower(strip(value.s)) \in TrueWords
      [] OTHER -> bool(value)

\* a character str.isdigit accepts although int() does not: SUPERSCRIPT TWO
SuperscriptDigits == {"sup2"}

isdigit(c) == IsDigit(c) \/ c \in SuperscriptDigits

SelectDigits(s) == SelectSeq(s, isdigit)

\* int(value) of a value that is no string: ok = FALSE when it raises
\* (TypeError for None, dict, list; ValueError, OverflowError for nan, inf)
py_int(value) ==
    CASE value.t \in {"int", "bool"} -> [ok |-> TRUE, n |-> value.n]
      [] value.t = "float" /\ value.s = <<>> ->
            [ok |-> TRUE,
             n |-> IF value.n >= 0 THEN value.n \div 10 ELSE -((-value.n) \div 10)]
      [] OTHER -> [ok |-> FALSE, n |-> 0]

_to_int_firstdigit(value, default) ==
    CASE value.t = "str" ->
            LET digits == SelectDigits(value.s)
            IN  IF digits = <<>> THEN default
                ELSE IF AllDigits(digits) THEN ParseNat(<<digits[1]>>)
                ELSE default
      [] OTHER -> IF py_int(value).ok THEN py_int(value).n ELSE default

_to_int(value, default) ==
    CASE value.t = "str" ->
            LET digits == SelectDigits(value.s)
            IN  IF digits = <<>> THEN default
                ELSE IF AllDigits(digits) THEN ParseNat(digits)
                ELSE default        \* int(digits) raises ValueError
      [] OTHER -> IF py_int(value).ok THEN py_int(value).n ELSE default

IsUsableStr(val) == val.t = "str" /\ strip(val.s) # <<>>

\* the first key of keys whose value is a non-blank string, or 0
FirstUsable(raw, keys) ==
    LET hits == {i \in 1..Len(keys) : IsUsableStr(get(raw, keys[i]))}
    IN  IF hits = {} THEN 0 ELSE CHOOSE i \in hits : \A j \in hits : i <= j

create_datetime_keys == <<"iso_datetime", "dateTime", "datetime", "start", "date">>

_extract_datetime_str(raw) ==
    IF raw.t = "dict"
    THEN LET i == FirstUsable(raw, create_datetime_keys)
         IN  IF i = 0 THEN <<>> ELSE strip(get(raw, create_datetime_keys[i]).s)
    ELSE strip(str(raw))

\* str.split("T", 1)[0]
BeforeT(s) ==
    LET ts == {i \in 1..Len(s) : s[i] = "T"}
    IN  IF ts = {} THEN s ELSE SubSeq(s, 1, (CHOOSE i \in ts : \A j \in ts : i <= j) - 1)

_extract_date_str(raw) == BeforeT(_extract_datetime_str(raw))

(***************************************************************************)
(* tools/calendar/check_events.py: _normalize_date_input                   *)
(* (None is modelled by the empty text: the callers only test 'not s')     *)
(***************************************************************************)
check_date_keys == <<"date", "iso_datetime", "datetime", "iso">>

_normalize_date_input_whole(raw) ==
    IF raw.t = "none" THEN <<>>
    ELSE IF raw.t = "dict"
    THEN LET i == FirstUsable(raw, check_date_keys)
         IN  IF i = 0 THEN <<>> ELSE strip(get(raw, check_date_keys[i]).s)
    ELSE strip(str(raw))

_normalize_date_input(raw) ==
    IF raw.t = "none" THEN <<>>
    ELSE IF raw.t = "dict"
    THEN LET i == FirstUsable(raw, check_date_keys)
         IN  IF i = 0 THEN <<>> ELSE BeforeT(strip(get(raw, check_date_keys[i]).s))
    ELSE BeforeT(strip(str(raw)))

(***************************************************************************)
(* The results and requests of the calendar operations                     *)
(***************************************************************************)
NoPayload == [kind |-> "none", value |-> <<>>]

NoBody == [summary |-> "", start |-> NoPayload, end |-> NoPayload]

NoWindow == [timeMin |-> <<>>, timeMax |-> <<>>]

NoLocals == [body |-> NoBody, window |-> NoWindow]

NoRet == [kind |-> "none", error |-> "", requested |-> NoBody]

ErrorRet(tag) == [kind |-> "error", error |-> tag, requested |-> NoBody]

Request(kind, body, window) == [kind |-> kind, body |-> body, window |-> window]

NoCall == [op |-> "none"]

(***************************************************************************)
(* tools/calendar/create_events.py: create_events                          *)
(***************************************************************************)
Normalized(start, end) == [ok |-> TRUE, error |-> "", start |-> start, end |-> end]

NotNormalized(tag) == [ok |-> FALSE, error |-> tag, start |-> NoPayload, end |-> NoPayload]

\* the try block that turns start_date, end_date into the two payloads
create_events_normalize(a) ==
    LET all_day_flag == _to_bool(a.all_day)
        duration_min_int == _to_int(a.duration_minutes, 60)
        failed == NotNormalized("Failed to normalize event dates")
    IN  IF all_day_flag
        THEN LET start_str == _extract_date_str(a.start_date)
                 end_str == _extract_date_str(a.end_date)
                 s == fromisoformat(start_str)
                 e == fromisoformat(end_str)
             IN  IF start_str = <<>> THEN NotNormalized("Invalid start_date for all-day event")
                 ELSE IF ~s.ok THEN failed
                 ELSE IF a.end_date.t # "none"
                 THEN IF end_str = <<>> THEN NotNormalized("Invalid end_date for all-day event")
                      ELSE IF ~e.ok THEN failed
                      ELSE Normalized([kind |-> "date", value |-> date_isoformat(date_of(s))],
                                      [kind |-> "date", value |-> date_isoformat(date_of(e))])
                 ELSE Normalized([kind |-> "date", value |-> date_isoformat(date_of(s))],
                                 [kind |-> "date",
                                  value |-> date_isoformat(plus_days(date_of(s), 1))])
        ELSE LET start_str == _extract_datetime_str(a.start_date)
                 end_str == _extract_datetime_str(a.end_date)
                 s == fromisoformat(start_str)
                 e == fromisoformat(end_str)
                 tz(dt) == IF dt.aware THEN astimezone_calendar(dt) ELSE replace_tz_calendar(dt)
             IN  IF start_str = <<>> THEN NotNormalized("Invalid start_date for timed event")
                 ELSE IF ~s.ok THEN failed
                 ELSE IF a.end_date.t # "none"
                 THEN IF end_str = <<>> THEN NotNormalized("Invalid end_date for timed event")
                      ELSE IF ~e.ok THEN failed
                      ELSE Normalized([kind |-> "dateTime", value |-> isoformat(tz(s))],
                                      [kind |-> "dateTime", value |-> isoformat(tz(e))])
                 ELSE Normalized([kind |-> "dateTime", value |-> isoformat(tz(s))],
                                 [kind |-> "dateTime",
                                  value |-> isoformat(plus_minutes(tz(s), duration_min_int))])

create_events_post_retry(body, outcome) ==
    [requests |-> IF outcome = "ok"
                  THEN <<Request("POST", body, NoWindow)>>
                  ELSE <<Request("POST", body, NoWindow), Request("POST", body, NoWindow)>>,
     ret |-> IF outcome = "ok"
             THEN [kind |-> "event", error |-> "", requested |-> NoBody]
             ELSE [kind |-> "error", error |-> "Failed to create event", requested |-> body]]

\* requests.post(...) in its try block: the requests made and the value returned
create_events_post(body, outcome) ==
    [requests |-> <<Request("POST", body, NoWindow)>>,
     ret |-> IF outcome = "ok"
             THEN [kind |-> "event", error |-> "", requested |-> NoBody]
             ELSE [kind |-> "error", error |-> "Failed to create event", requested |-> body]]

(***************************************************************************)
(* tools/calendar/check_events.py: check_events                            *)
(***************************************************************************)
check_events_window_exclusive(a) ==
    LET start_str == _normalize_date_input(a.date)
        end_str == IF a.end_date.t # "none" THEN _normalize_date_input(a.end_date) ELSE <<>>
        s == fromisoformat(start_str)
        e == fromisoformat(end_str)
        start_dt == replace_tz_utc(s)
    IN  IF start_str = <<>>
        THEN [ok |-> FALSE, error |-> "Invalid or empty start date", window |-> NoWindow]
        ELSE IF ~s.ok
        THEN [ok |-> FALSE, error |-> "Could not parse start date", window |-> NoWindow]
        ELSE IF end_str # <<>>
        THEN IF ~e.ok
             THEN [ok |-> FALSE, error |-> "Could not parse end date", window |-> NoWindow]
             ELSE [ok |-> TRUE, error |-> "",
                   window |-> [timeMin |-> isoformat(start_dt),
                               timeMax |-> isoformat(replace_tz_utc(e))]]
        ELSE [ok |-> TRUE, error |-> "",
              window |-> [timeMin |-> isoformat(start_dt),
                          timeMax |-> isoformat(plus_days(start_dt, 1))]]

\* from the normalized arguments to the query window, or to the error item
check_events_window(a) ==
    LET start_str == _normalize_date_input(a.date)
        end_str == IF a.end_date.t # "none" THEN _normalize_date_input(a.end_date) ELSE <<>>
        s == fromisoformat(start_str)
        e == fromisoformat(end_str)
        start_dt == replace_tz_utc(s)
    IN  IF start_str = <<>>
        THEN [ok |-> FALSE, error |-> "Invalid or empty start date", window |-> NoWindow]
        ELSE IF ~s.ok
        THEN [ok |-> FALSE, error |-> "Could not parse start date", window |-> NoWindow]
        ELSE IF end_str # <<>>
        THEN IF ~e.ok
             THEN [ok |-> FALSE, error |-> "Could not parse end date", window |-> NoWindow]
             ELSE [ok |-> TRUE, error |-> "",
                   window |-> [timeMin |-> isoformat(start_dt),
                               timeMax |-> isoformat(plus_days(replace_tz_utc(e), 1))]]
        ELSE [ok |-> TRUE, error |-> "",
              window |-> [timeMin |-> isoformat(start_dt),
                          timeMax |-> isoformat(plus_days(start_dt, 1))]]

(***************************************************************************)
(* Arguments the runtime passes to the calendar operations                 *)
(***************************************************************************)
StartInputs ==
    { PyStr(<<"2", "0", "2", "5", "-", "1", "2", "-", "0", "5">>),
      PyStr(<<"2", "0", "2", "5", "-", "1", "2", "-", "0", "5", "T", "1", "4", ":", "0", "0", ":", "0", "0">>),
      PyStr(<<"2", "0", "2", "5", "-", "1", "2", "-", "3", "1", "T", "2", "3", ":", "3", "0", ":", "0", "0", "+", "0", "0", ":", "0", "0">>),
      PyStr(<<>>),
      PyStr(<<"t", "o", "m", "o", "r", "r", "o", "w">>),
      PyStr(<<"2", "0", "2", "5", "-", "1", "3", "-", "4", "5">>),
      PyDict([iso_datetime |-> PyStr(<<"2", "0", "2", "5", "-", "1", "2", "-", "0", "5", "T", "1", "4", ":", "0", "0", ":", "0", "0", "+", "0", "1", ":", "0", "0">>),
              date |-> PyStr(<<"2", "0", "2", "5", "-", "1", "2", "-", "0", "5">>), ok |-> PyBool(TRUE)]),
      PyDict([ok |-> PyBool(FALSE), error |-> PyStr(<<"c", "o", "u", "l", "d", "_", "n", "o", "t", "_", "p", "a", "r", "s", "e">>)]),
      PyNone }

EndInputs ==
    { PyNone,
      PyStr(<<"2", "0", "2", "5", "-", "1", "2", "-", "0", "6">>),
      PyStr(<<"2", "0", "2", "5", "-", "1", "2", "-", "0", "5", "T", "1", "5", ":", "0", "0", ":", "0", "0">>),
      PyStr(<<" ">>),
      PyStr(<<"n", "e", "x", "t", " ", "w", "e", "e", "k">>),
      PyDict([ok |-> PyBool(FALSE), error |-> PyStr(<<"c", "o", "u", "l", "d", "_", "n", "o", "t", "_", "p", "a", "r", "s", "e">>)]) }

AllDayInputs == {PyBool(FALSE), PyBool(TRUE), PyStr(<<" ", "Y", "e", "s">>), PyStr(<<"n", "o">>)}

DurationInputs == {PyInt(60), PyStr(<<"9", "0", " ", "m", "i", "n", "u", "t", "e", "s">>), PyStr(<<"s", "o", "o", "n">>), PyInt(0)}

Calls ==
    {[op |-> "create_events", summary |-> "Chinese lesson",
      start_date |-> sd, end_date |-> ed, all_day |-> ad, duration_minutes |-> du] :
        sd \in StartInputs, ed \in EndInputs, ad \in AllDayInputs, du \in DurationInputs}
    \cup
    {[op |-> "check_events", date |-> sd, end_date |-> ed] :
        sd \in StartInputs, ed \in EndInputs}

(***************************************************************************)
(* One invocation of a calendar operation, step by step                    *)
(***************************************************************************)
\* _get_access_token(): the first statement of both operations; it asks the
\* token endpoint for a fresh token and is not inside any try block
GetAccessToken(outcome) ==
    /\ frontend = "tool" /\ tpc = "entered"
    /\ net' = Append(net, Request("token", NoBody, NoWindow))
    /\ tpc' = IF outcome = "ok" THEN "authorized" ELSE "raised"
    /\ UNCHANGED <<convvars, call, locals, ret>>

CreateNormalize ==
    /\ frontend = "tool" /\ tpc = "authorized" /\ call.op = "create_events"
    /\ LET r == create_events_normalize(call)
       IN  IF r.ok
           THEN /\ locals' = [locals EXCEPT !.body =
                        [summary |-> call.summary, start |-> r.start, end |-> r.end]]
                /\ tpc' = "ready"
                /\ UNCHANGED ret
           ELSE /\ ret' = ErrorRet(r.error)
                /\ tpc' = "returned"
                /\ UNCHANGED locals
    /\ UNCHANGED <<convvars, call, net>>

CreatePost(outcome) ==
    /\ frontend = "tool" /\ tpc = "ready" /\ call.op = "create_events"
    /\ LET r == create_events_post(locals.body, outcome)
       IN  /\ net' = net \o r.requests
           /\ ret' = r.ret
    /\ tpc' = "returned"
    /\ UNCHANGED <<convvars, call, locals>>

CheckNormalize ==
    /\ frontend = "tool" /\ tpc = "authorized" /\ call.op = "check_events"
    /\ LET r == check_events_window(call)
       IN  IF r.ok
           THEN /\ locals' = [locals EXCEPT !.window = r.window]
                /\ tpc' = "ready"
                /\ UNCHANGED ret
           ELSE /\ ret' = ErrorRet(r.error)
                /\ tpc' = "returned"
                /\ UNCHANGED locals
    /\ UNCHANGED <<convvars, call, net>>

CheckGet(outcome) ==
    /\ frontend = "tool" /\ tpc = "ready" /\ call.op = "check_events"
    /\ net' = Append(net, Request("GET", NoBody, locals.window))
    /\ ret' = IF outcome = "ok"
              THEN [kind |-> "events", error |-> "", requested |-> NoBody]
              ELSE ErrorRet("Failed to fetch events")
    /\ tpc' = "returned"
    /\ UNCHANGED <<convvars, call, locals>>

(***************************************************************************)
(* The conversational programs                                             *)
(***************************************************************************)
Init ==
    /\ frontend \in {"cli", "telegram", "legacy", "telegram_agent"}
    /\ pc = "boot"
    /\ butler = NoButler
    /\ memory = <<>>
    /\ history = <<>>
    /\ runs = <<>>
    /\ inflight = {}
    /\ queue = <<>>
    /\ outs = <<>>
    /\ uidc = 0
    /\ call = NoCall
    /\ tpc = "idle"
    /\ net = <<>>
    /\ locals = NoLocals
    /\ ret = NoRet

Next ==
    \/ CliStart
    \/ \E text \in CliInputs : CliInput(text)
    \/ CliInterrupt
    \/ \E outcome \in Outcomes : CliRunReturn(outcome)
    \/ RunStep
    \/ TgStart
    \/ \E chat \in Chats, text \in TgTexts : TgReceive(chat, text)
    \/ TgDispatch
    \/ \E outcome \in Outcomes : TgRunReturn(outcome)
    \/ TgReplied
    \/ LegacyStart
    \/ \E text \in CliInputs, o1 \in Outcomes, o2 \in Outcomes : LegacyTurn(text, o1, o2)
    \/ LegacyInterrupt
    \/ TaStart
    \/ \E text \in TgTexts, outcome \in Outcomes : TaHandleMessage(text, outcome)

Spec == Init /\ [][Next]_vars

(***************************************************************************)
(* One invocation of a calendar operation with arbitrary arguments         *)
(***************************************************************************)
ToolInit ==
    /\ frontend = "tool"
    /\ pc = "tool"
    /\ butler = NoButler
    /\ memory = <<>>
    /\ history = <<>>
    /\ runs = <<>>
    /\ inflight = {}
    /\ queue = <<>>
    /\ outs = <<>>
    /\ uidc = 0
    /\ call \in Calls
    /\ tpc = "entered"
    /\ net = <<>>
    /\ locals = NoLocals
    /\ ret = NoRet

ToolNext ==
    \/ \E outcome \in Outcomes : GetAccessToken(outcome)
    \/ CreateNormalize
    \/ \E outcome \in Outcomes : CreatePost(outcome)
    \/ CheckNormalize
    \/ \E outcome \in Outcomes : CheckGet(outcome)

SpecTools == ToolInit /\ [][ToolNext]_vars

(***************************************************************************)
(* tools/email/check_mails.py, tools/news/get_news.py: the count and flag  *)
(* handling                                                                *)
(***************************************************************************)
_to_int_with_default(value, default) ==
    CASE value.t = "str" ->
            LET digits == SelectDigits(value.s)
            IN  IF digits = <<>> THEN default
                ELSE IF AllDigits(digits) THEN ParseNat(digits)
                ELSE default
      [] OTHER -> IF py_int(value).ok THEN py_int(value).n ELSE default

\* the try block news_report runs on world_num, local_num and max_chars
news_report_count(value, default) ==
    CASE value.t = "str" ->
            LET digits == SelectDigits(value.s)
            IN  IF digits = <<>> THEN default
                ELSE IF AllDigits(digits) THEN ParseNat(digits)
                ELSE default
      [] OTHER -> IF py_int(value).ok THEN py_int(value).n ELSE default

news_report_as_article(value) ==
    IF value.t = "str" THEN lower(strip(value.s)) \in TrueWords ELSE bool(value)

(***************************************************************************)
(* tools/news/financial_market.py: get_financial_market_updates            *)
(***************************************************************************)
slice_from_end(items, stop) ==
    LET k == IF stop.n < 0 THEN 0 ELSE IF stop.n > Len(items) THEN Len(items) ELSE stop.n
    IN  [ok |-> TRUE, items |-> SubSeq(items, Len(items) - k + 1, Len(items))]

\* items[:stop]: a slice index is None or has __index__ (int, bool); every
\* other value raises TypeError (ok = FALSE)
slice_to(items, stop) ==
    LET k == stop.n
        last == IF k < 0 THEN (IF Len(items) + k < 0 THEN 0 ELSE Len(items) + k)
                ELSE IF k > Len(items) THEN Len(items) ELSE k
    IN  CASE stop.t = "none" -> [ok |-> TRUE, items |-> items]
          [] stop.t \in {"int", "bool"} -> [ok |-> TRUE, items |-> SubSeq(items, 1, last)]
          [] OTHER -> [ok |-> FALSE, items |-> <<>>]

(***************************************************************************)
(* tools/weather/check_weather.py: _extract_date_str, _extract_hour        *)
(***************************************************************************)
weather_date_keys == <<"date", "iso_datetime", "datetime", "iso">>

weather_extract_date_str(raw) ==
    LET i == FirstUsable(raw, weather_date_keys)
        s == IF raw.t = "dict"
             THEN (IF i = 0 THEN <<>> ELSE strip(get(raw, weather_date_keys[i]).s))
             ELSE strip(str(raw))
    IN  BeforeT(s)

weather_time_keys == <<"time", "iso_datetime", "datetime", "iso">>

\* int(text): surrounding whitespace, one optional sign, decimal digits;
\* ok = FALSE when it raises ValueError
int_of_text(text) ==
    LET s == strip(text)
        signed == s # <<>> /\ s[1] \in {"+", "-"}
        digits == IF signed THEN Tail(s) ELSE s
    IN  IF digits # <<>> /\ AllDigits(digits)
        THEN [ok |-> TRUE, n |-> IF signed /\ s[1] = "-" THEN -ParseNat(digits)
                                                         ELSE ParseNat(digits)]
        ELSE [ok |-> FALSE, n |-> 0]

_extract_hour(raw) ==
    IF raw.t = "none" THEN PyNone
    ELSE LET i == FirstUsable(raw, weather_time_keys)
             s == IF raw.t = "dict"
                  THEN (IF i = 0 THEN <<>> ELSE strip(get(raw, weather_time_keys[i]).s))
                  ELSE strip(str(raw))
             first(x, sep) == CHOOSE k \in 1..Len(x) :
                                 x[k] = sep /\ \A j \in 1..(k - 1) : x[j] # sep
             has(x, sep) == \E k \in 1..Len(x) : x[k] = sep
             \* s.split("T", 1)[1]
             clock == IF has(s, "T") THEN SubSeq(s, first(s, "T") + 1, Len(s)) ELSE s
             \* s.split(":", 1)[0]
             hour_str == IF has(clock, ":") THEN SubSeq(clock, 1, first(clock, ":") - 1)
                                            ELSE clock
             hour == int_of_text(hour_str)
         IN  IF s = <<>> THEN PyNone
             ELSE IF hour.ok THEN PyInt(hour.n) ELSE PyNone

(***************************************************************************)
(* Argument values the runtime may pass for any parameter                  *)
(***************************************************************************)
CoerceValues ==
    { PyNone, PyBool(TRUE), PyBool(FALSE),
      PyInt(0), PyInt(7), PyInt(-4), PyInt(25),
      PyFloat(25), PyFloat(-25), PyFloat(0), PyFloatNaN, PyFloatInf,
      PyList(<<>>), PyList(<<"1", "2">>),
      PyDict(<<>>),
      PyDict([ok |-> PyBool(FALSE), error |-> PyStr(<<"c", "o", "u", "l", "d", "_", "n", "o", "t", "_", "p", "a", "r", "s", "e">>)]),
      PyDict([ok |-> PyBool(TRUE), iso_datetime |-> PyStr(<<"2", "0", "2", "5", "-", "1", "2", "-", "0", "6", "T", "0", "9", ":", "3", "0", ":", "0", "0", "+", "0", "1", ":", "0", "0">>),
              date |-> PyStr(<<"2", "0", "2", "5", "-", "1", "2", "-", "0", "6">>), time |-> PyStr(<<"0", "9", ":", "3", "0">>)]),
      PyDict([date |-> PyStr(<<" ">>), datetime |-> PyStr(<<"2", "0", "2", "5", "-", "1", "2", "-", "0", "7", "T", "2", "3", ":", "1", "5", ":", "0", "0">>)]),
      PyDict([date |-> PyInt(7), time |-> PyInt(7), iso |-> PyStr(<<"2", "0", "2", "5", "-", "1", "2", "-", "0", "8">>)]),
      PyDict([start |-> PyStr(<<"2", "0", "2", "5", "-", "1", "2", "-", "0", "9", "T", "1", "0", ":", "0", "0", ":", "0", "0">>)]),
      PyStr(<<>>), PyStr(<<" ", " ", " ">>), PyStr(<<"s", "o", "o", "n">>), PyStr(<<"9", "0", " ", "m", "i", "n", "u", "t", "e", "s">>), PyStr(<<"1", " ", "o", "f", " ", "2">>), PyStr(<<"-", "5">>), PyStr(<<"2", ".", "5">>),
      PyStr(<<"sup2", "5">>),
      PyStr(<<" ", "Y", "e", "s", " ">>), PyStr(<<"T", "R", "U", "E">>), PyStr(<<"o", "n">>), PyStr(<<"y">>), PyStr(<<"1">>), PyStr(<<"0">>), PyStr(<<"n", "o">>), PyStr(<<"f", "a", "l", "s", "e">>),
      PyStr(<<"2", "0", "2", "5", "-", "1", "2", "-", "0", "5">>), PyStr(<<"T", "u", "e", "s", "d", "a", "y">>),
      PyStr(<<"1", "4", ":", "3", "0">>), PyStr(<<"2", "5", ":", "0", "0">>), PyStr(<<"-", "3", ":", "0", "0">>), PyStr(<<"2", "3", ":", "5", "9", ":", "5", "9">>), PyStr(<<"0", "0", ":", "1", "5">>) }

\* full datetime texts, passed for the flag, date and time parameters
DateTimeTexts ==
    { PyStr(<<" ", "2", "0", "2", "5", "-", "1", "2", "-", "0", "5", "T", "1", "4", ":", "0", "0", ":", "0", "0", "+", "0", "1", ":", "0", "0", " ">>), PyStr(<<"2", "0", "2", "5", "-", "1", "2", "-", "3", "1", "T", "0", "9", ":", "0", "5", ":", "0", "0">>) }

\* the parameters the operations coerce, by operation
CoercedParams ==
    { <<"create_events", "all_day">>, <<"create_events", "duration_minutes">>,
      <<"create_events", "start_date">>, <<"check_events", "date">>,
      <<"check_mails", "max_emails">>, <<"check_mails", "days_back">>,
      <<"news_report", "world_num">>, <<"news_report", "local_num">>,
      <<"news_report", "max_chars">>, <<"news_report", "as_article">>,
      <<"get_financial_market_updates", "num_news">>,
      <<"get_weather", "date">>, <<"get_weather", "time">> }

CoerceCalls ==
    {[op |-> p[1], param |-> p[2], value |-> v] : p \in CoercedParams, v \in CoerceValues}
    \cup
    {[op |-> p[1], param |-> p[2], value |-> v] :
        p \in {q \in CoercedParams :
                 q[2] \in {"all_day", "as_article", "start_date", "date", "time"}},
        v \in DateTimeTexts}

(***************************************************************************)
(* One coercion of one argument value, per operation                       *)
(***************************************************************************)
CreateEventsToBool ==
    /\ frontend = "coerce" /\ tpc = "entered"
    /\ call.op = "create_events" /\ call.param = "all_day"
    /\ ret' = PyBool(_to_bool(call.value))
    /\ tpc' = "returned"
    /\ UNCHANGED <<convvars, call, net, locals>>

CreateEventsToInt ==
    /\ frontend = "coerce" /\ tpc = "entered"
    /\ call.op = "create_events" /\ call.param = "duration_minutes"
    /\ ret' = PyInt(_to_int(call.value, 60))
    /\ tpc' = "returned"
    /\ UNCHANGED <<convvars, call, net, locals>>

CreateEventsExtractDate ==
    /\ frontend = "coerce" /\ tpc = "entered"
    /\ call.op = "create_events" /\ call.param = "start_date"
    /\ ret' = PyStr(_extract_date_str(call.value))
    /\ tpc' = "returned"
    /\ UNCHANGED <<convvars, call, net, locals>>

CheckEventsNormalizeDate ==
    /\ frontend = "coerce" /\ tpc = "entered"
    /\ call.op = "check_events" /\ call.param = "date"
    /\ ret' = PyStr(_normalize_date_input(call.value))
    /\ tpc' = "returned"
    /\ UNCHANGED <<convvars, call, net, locals>>

CheckMailsToInt ==
    /\ frontend = "coerce" /\ tpc = "entered" /\ call.op = "check_mails"
    /\ ret' = PyInt(_to_int_with_default(call.value,
                        IF call.param = "max_emails" THEN 8 ELSE 3))
    /\ tpc' = "returned"
    /\ UNCHANGED <<convvars, call, net, locals>>

NewsReportCount ==
    /\ frontend = "coerce" /\ tpc = "entered"
    /\ call.op = "news_report" /\ call.param # "as_article"
    /\ ret' = PyInt(news_report_count(call.value,
                        IF call.param = "max_chars" THEN 12000 ELSE 5))
    /\ tpc' = "returned"
    /\ UNCHANGED <<convvars, call, net, locals>>

NewsReportAsArticle ==
    /\ frontend = "coerce" /\ tpc = "entered"
    /\ call.op = "news_report" /\ call.param = "as_article"
    /\ ret' = PyBool(news_report_as_article(call.value))
    /\ tpc' = "returned"
    /\ UNCHANGED <<convvars, call, net, locals>>

\* the whole operation: the scrape, outside any try block, then the slice;
\* items are the headlines _scrape_finviz_news returns, here numbered
GetFinancialMarketUpdates(outcome, items) ==
    /\ frontend = "coerce" /\ tpc = "entered"
    /\ call.op = "get_financial_market_updates"
    /\ net' = Append(net, Request("GET", NoBody, NoWindow))
    /\ locals' = [scrape |-> outcome, items |-> items]
    /\ LET r == slice_to(items, call.value)
       IN  IF outcome = "ok" /\ r.ok
           THEN /\ ret' = PyDict([news |-> PyList(r.items)])
                /\ tpc' = "returned"
           ELSE /\ tpc' = "raised"
                /\ UNCHANGED ret
    /\ UNCHANGED <<convvars, call>>

WeatherExtractDate ==
    /\ frontend = "coerce" /\ tpc = "entered"
    /\ call.op = "get_weather" /\ call.param = "date"
    /\ ret' = PyStr(weather_extract_date_str(call.value))
    /\ tpc' = "returned"
    /\ UNCHANGED <<convvars, call, net, locals>>

WeatherExtractHour ==
    /\ frontend = "coerce" /\ tpc = "entered"
    /\ call.op = "get_weather" /\ call.param = "time"
    /\ ret' = _extract_hour(call.value)
    /\ tpc' = "returned"
    /\ UNCHANGED <<convvars, call, net, locals>>

(***************************************************************************)
(* tools/calendar/resolve_date_expression.py                               *)
(***************************************************************************)
\* the keys ZoneInfo finds, of those the model passes
ZoneKeys == {<<"E", "u", "r", "o", "p", "e", "/", "V", "i", "e", "n", "n", "a">>, <<"U", "T", "C">>}

\* utcoffset of ZoneInfo(zone) at a UTC instant, in minutes: Europe/Vienna is
\* at +02:00 from 01:00 UTC of the last Sunday of March to 01:00 UTC of the
\* last Sunday of October, and at +01:00 otherwise
zone_utcoffset(zone, utc) ==
    LET last_sunday(m) == 31 - ((toordinal(utc.y, m, 31) + 4) % 7)
        switch(m) == toordinal(utc.y, m, last_sunday(m)) * 1440 + 60
        instant == toordinal(utc.y, utc.m, utc.d) * 1440 + utc.hh * 60 + utc.mi
    IN  IF zone # <<"E", "u", "r", "o", "p", "e", "/", "V", "i", "e", "n", "n", "a">> THEN 0
        ELSE IF switch(3) <= instant /\ instant < switch(10) THEN 120
        ELSE 60

resolver_failure_generic(tag, a, expression) ==
    PyDict([ok |-> PyBool(FALSE), error |-> PyStr(<<"c", "o", "u", "l", "d", "_", "n", "o", "t", "_", "p", "a", "r", "s", "e">>),
            original_expression |-> expression, timezone |-> a.timezone])

\* the ok = False result; the text of a caught exception is abbreviated to 'exc'
resolver_failure(tag, a, expression) ==
    PyDict([ok |-> PyBool(FALSE),
            error |-> PyStr(IF tag \in {<<"i", "n", "v", "a", "l", "i", "d", "_", "t", "i", "m", "e", "z", "o", "n", "e">>, <<"i", "n", "v", "a", "l", "i", "d", "_", "n", "o", "w", "_", "i", "s", "o">>}
                            THEN tag \o <<":", " ", "e", "x", "c">> ELSE tag),
            original_expression |-> expression, timezone |-> a.timezone])

\* parsed is what dateparser.parse returns: None (NoDateTime) or an aware datetime
resolve_date_expression(a, parsed) ==
    LET expression_str == PyStr(strip(str(a.expression)))
        zone_found == a.timezone.t = "str" /\ a.timezone.s \in ZoneKeys
        now_read == ~bool(a.now_iso) \/ fromisoformat(str(a.now_iso)).ok
        utc == plus_minutes(parsed, -parsed.off)
        off == zone_utcoffset(a.timezone.s, utc)
        \* parsed.astimezone(tz)
        local == [plus_minutes(utc, off) EXCEPT !.aware = TRUE, !.off = off]
    IN  IF ~bool(a.expression) \/ expression_str.s = <<>>
        THEN resolver_failure(<<"e", "m", "p", "t", "y", "_", "e", "x", "p", "r", "e", "s", "s", "i", "o", "n">>, a, a.expression)
        ELSE IF ~zone_found
        THEN resolver_failure(<<"i", "n", "v", "a", "l", "i", "d", "_", "t", "i", "m", "e", "z", "o", "n", "e">>, a, expression_str)
        ELSE IF ~now_read
        THEN resolver_failure(<<"i", "n", "v", "a", "l", "i", "d", "_", "n", "o", "w", "_", "i", "s", "o">>, a, expression_str)
        ELSE IF ~parsed.ok
        THEN resolver_failure(<<"c", "o", "u", "l", "d", "_", "n", "o", "t", "_", "p", "a", "r", "s", "e">>, a, expression_str)
        ELSE PyDict([ok |-> PyBool(TRUE),
                     iso_datetime |-> PyStr(isoformat(local)),
                     date |-> PyStr(date_isoformat(local)),
                     time |-> PyStr(Pad(local.hh, 2) \o <<":">> \o Pad(local.mi, 2)),
                     timezone |-> a.timezone,
                     original_expression |-> expression_str])

ResolveCalls ==
    {[op |-> "resolve_date_expression", expression |-> e, now_iso |-> n, timezone |-> z] :
        e \in {PyStr(<<"t", "o", "m", "o", "r", "r", "o", "w", " ", "a", "t", " ", "3", "p", "m">>), PyStr(<<" ", "n", "e", "x", "t", " ", "F", "r", "i", "d", "a", "y", " ">>), PyStr(<<"a", "s", "d", "f">>), PyStr(<<>>), PyStr(<<" ", " ">>), PyNone},
        n \in {PyNone, PyStr(<<"2", "0", "2", "5", "-", "1", "2", "-", "0", "1", "T", "1", "0", ":", "0", "0", ":", "0", "0">>), PyStr(<<"2", "0", "2", "5", "-", "1", "2", "-", "0", "1", "T", "1", "0", ":", "0", "0", ":", "0", "0", "+", "0", "0", ":", "0", "0">>),
               PyStr(<<"y", "e", "s", "t", "e", "r", "d", "a", "y">>)},
        z \in {PyStr(<<"E", "u", "r", "o", "p", "e", "/", "V", "i", "e", "n", "n", "a">>), PyStr(<<"U", "T", "C">>), PyStr(<<"M", "a", "r", "s", "/", "P", "h", "o", "b", "o", "s">>), PyNone}}

\* the answers of dateparser.parse
ParsedMoments ==
    { NoDateTime,
      DateTime(2025, 12, 2, 15, 0, 0, TRUE, 60),
      DateTime(2025, 7, 1, 23, 30, 0, TRUE, 0),
      DateTime(2025, 12, 31, 23, 30, 59, TRUE, 0),
      DateTime(2025, 3, 30, 0, 59, 0, TRUE, 0),
      DateTime(2025, 3, 30, 1, 0, 0, TRUE, 0),
      DateTime(2025, 10, 26, 2, 30, 0, TRUE, 120) }

\* the whole operation; locals keeps the parser's answer once the parser was asked
ResolveDateExpression(parsed) ==
    /\ frontend = "resolve" /\ tpc = "entered"
    /\ ret' = resolve_date_expression(call, parsed)
    /\ locals' = IF /\ bool(call.expression) /\ strip(str(call.expression)) # <<>>
                    /\ call.timezone.t = "str" /\ call.timezone.s \in ZoneKeys
                    /\ (~bool(call.now_iso) \/ fromisoformat(str(call.now_iso)).ok)
                 THEN [parsed |-> parsed] ELSE locals
    /\ tpc' = "returned"
    /\ UNCHANGED <<convvars, call, net>>

(***************************************************************************)
(* tools/email/check_mails.py: check_mails                                 *)
(***************************************************************************)
score_message(msg) ==
    (IF msg.importance = "high" THEN 3 ELSE 0)
        + (IF msg.inferenceClassification = "focused" THEN 2 ELSE 0)
        + (IF ~msg.isRead THEN 1 ELSE 0)

\* datetime.fromisoformat(dt_str.replace("Z", "+00:00"))
RECURSIVE parse_dt(_)
parse_dt(dt_str) ==
    LET zs == {i \in 1..Len(dt_str) : dt_str[i] = "Z"}
        i == CHOOSE z \in zs : \A y \in zs : z <= y
    IN  IF zs = {} THEN fromisoformat(dt_str)
        ELSE parse_dt(SubSeq(dt_str, 1, i - 1) \o <<"+", "0", "0", ":", "0", "0">>
                        \o SubSeq(dt_str, i + 1, Len(dt_str)))

\* a < b for two str of the characters of a timestamp, by code point
text_less(a, b) ==
    LET order == <<"+", "-", ".", "0", "1", "2", "3", "4", "5", "6", "7", "8", "9",
                   ":", "T", "Z">>
        ord(c) == CHOOSE k \in 1..Len(order) : order[k] = c
        same(k) == \A j \in 1..k : a[j] = b[j]
    IN  \/ Len(a) < Len(b) /\ same(Len(a))
        \/ \E k \in 1..Len(a) : k <= Len(b) /\ same(k - 1) /\ ord(a[k]) < ord(b[k])

\* important.sort(key = lambda m: (-m["score"], m["receivedDateTime"] or "")):
\* ascending in the key, stable
sort_important(important) ==
    LET before(x, y) ==
            \/ important[x].score > important[y].score
            \/ /\ important[x].score = important[y].score
               /\ \/ text_less(important[x].receivedDateTime, important[y].receivedDateTime)
                  \/ important[x].receivedDateTime = important[y].receivedDateTime /\ x < y
        rank(x) == 1 + Cardinality({y \in 1..Len(important) : before(y, x)})
    IN  [k \in 1..Len(important) |->
            important[CHOOSE x \in 1..Len(important) : rank(x) = k]]

\* the seconds of an aware datetime since 1970-01-01T00:00:00+00:00
timestamp(dt) ==
    (toordinal(dt.y, dt.m, dt.d) * 1440 + dt.hh * 60 + dt.mi - dt.off) * 60 + dt.ss

\* the operation from the token request on: the requests made, whether it
\* raised, and the value returned
check_mails(a, token, fetch, messages, now) ==
    LET max_emails_int == _to_int_with_default(a.max_emails, 8)
        days_back_int == _to_int_with_default(a.days_back, 3)
        requests == IF token = "ok"
                    THEN <<Request("token", NoBody, NoWindow), Request("GET", NoBody, NoWindow)>>
                    ELSE <<Request("token", NoBody, NoWindow)>>
        \* now - timedelta(days = days_back_int) raises OverflowError outside 0001..9999
        cutoff_day == toordinal(now.y, now.m, now.d) - days_back_int
        overflow == cutoff_day < toordinal(1, 1, 1) \/ cutoff_day > toordinal(9999, 12, 31)
        cutoff == plus_days(now, -days_back_int)
        parsed(msg) == msg.receivedDateTime # <<>> /\ parse_dt(msg.receivedDateTime).ok
        \* received_dt < cutoff raises TypeError for a datetime without offset
        naive == \E i \in 1..Len(messages) :
                    parsed(messages[i]) /\ ~parse_dt(messages[i].receivedDateTime).aware
        keep(msg) == /\ parsed(msg)
                     /\ timestamp(parse_dt(msg.receivedDateTime)) >= timestamp(cutoff)
                     /\ score_message(msg) > 0
        scored(msg) == [importance |-> msg.importance,
                        inferenceClassification |-> msg.inferenceClassification,
                        isRead |-> msg.isRead,
                        receivedDateTime |-> msg.receivedDateTime,
                        score |-> score_message(msg)]
        kept == SelectSeq(messages, keep)
        important == sort_important([k \in 1..Len(kept) |-> scored(kept[k])])
        selected == slice_to(important, PyInt(max_emails_int)).items
    IN  IF token # "ok"
        THEN [raised |-> TRUE, requests |-> requests, ret |-> NoRet]
        ELSE IF fetch # "ok"
        THEN [raised |-> FALSE, requests |-> requests,
              ret |-> [kind |-> "mails", error |-> "Failed to fetch emails",
                       total_checked |-> 0, total_returned |-> 0, emails |-> <<>>]]
        ELSE IF overflow \/ naive
        THEN [raised |-> TRUE, requests |-> requests, ret |-> NoRet]
        ELSE [raised |-> FALSE, requests |-> requests,
              ret |-> [kind |-> "mails", error |-> "",
                       total_checked |-> Len(messages), total_returned |-> Len(selected),
                       emails |-> selected]]

MailCalls ==
    {[op |-> "check_mails", max_emails |-> m, days_back |-> d] :
        m \in {PyInt(2), PyStr(<<"1", " ", "e", "m", "a", "i", "l">>), PyInt(0), PyInt(-1), PyStr(<<"a", "l", "l">>)},
        d \in {PyInt(3), PyStr(<<"1", " ", "d", "a", "y">>), PyInt(-1)}}

\* messages of the upstream mailbox
Mailbox ==
    { [importance |-> "high", inferenceClassification |-> "other", isRead |-> TRUE,
       receivedDateTime |-> <<"2", "0", "2", "5", "-", "1", "1", "-", "1", "8", "T", "1", "3", ":", "0", "8", ":", "0", "0", "Z">>],
      [importance |-> "normal", inferenceClassification |-> "focused", isRead |-> FALSE,
       receivedDateTime |-> <<"2", "0", "2", "5", "-", "1", "1", "-", "1", "8", "T", "0", "8", ":", "0", "0", ":", "0", "0", "Z">>],
      [importance |-> "normal", inferenceClassification |-> "other", isRead |-> TRUE,
       receivedDateTime |-> <<"2", "0", "2", "5", "-", "1", "1", "-", "1", "8", "T", "1", "0", ":", "0", "0", ":", "0", "0", "Z">>],
      [importance |-> "high", inferenceClassification |-> "focused", isRead |-> FALSE,
       receivedDateTime |-> <<"2", "0", "2", "5", "-", "1", "1", "-", "0", "1", "T", "1", "0", ":", "0", "0", ":", "0", "0", "Z">>],
      [importance |-> "high", inferenceClassification |-> "focused", isRead |-> TRUE,
       receivedDateTime |-> <<"2", "0", "2", "5", "-", "1", "1", "-", "1", "8", "T", "0", "9", ":", "3", "0", ":", "0", "0", "+", "0", "2", ":", "0", "0">>],
      [importance |-> "high", inferenceClassification |-> "focused", isRead |-> FALSE,
       receivedDateTime |-> <<>>],
      [importance |-> "high", inferenceClassification |-> "other", isRead |-> FALSE,
       receivedDateTime |-> <<"y", "e", "s", "t", "e", "r", "d", "a", "y">>],
      [importance |-> "normal", inferenceClassification |-> "other", isRead |-> FALSE,
       receivedDateTime |-> <<"2", "0", "2", "5", "-", "1", "1", "-", "1", "8", "T", "1", "0", ":", "0", "0", ":", "0", "0">>] }

\* the batches the upstream returns: up to MaxBatch different messages in any order
Batches ==
    {b \in UNION {[1..n -> Mailbox] : n \in 0..MaxBatch} :
        \A i, j \in 1..Len(b) : i # j => b[i] # b[j]}

\* the whole operation; locals keeps what the token request and the mailbox
\* answered and the clock
CheckMails(token, fetch, messages, now) ==
    /\ frontend = "mails" /\ tpc = "entered"
    /\ LET r == check_mails(call, token, fetch, messages, now)
       IN  /\ net' = net \o r.requests
           /\ ret' = r.ret
           /\ tpc' = IF r.raised THEN "raised" ELSE "returned"
    /\ locals' = [token |-> token, fetch |-> IF token = "ok" THEN fetch ELSE "none",
                  messages |-> IF token = "ok" /\ fetch = "ok" THEN messages ELSE <<>>,
                  now |-> now]
    /\ UNCHANGED <<convvars, call>>

(***************************************************************************)
(* tools/news/get_news.py: news_report                                     *)
(***************************************************************************)
brief_errors_first(world, local) ==
    IF ~world.ok THEN {"world"} ELSE IF ~local.ok THEN {"local"} ELSE {}

\* the keys of errors after the two try blocks of the daily brief
brief_errors(world, local) ==
    (IF world.ok THEN {} ELSE {"world"}) \cup (IF local.ok THEN {} ELSE {"local"})

NoArticle == [ok |-> FALSE, error |-> "", text |-> <<>>]

\* the operation from its first request on: the requests made and the dict
\* returned.  world is the outcome of the RSS feed, local that of the Serper
\* news search (the one request a call makes to it), page that of the
\* article download: ok = FALSE where the helper raises.
news_report(a, world, local, page) ==
    LET world_num_int == news_report_count(a.world_num, 5)
        local_num_int == news_report_count(a.local_num, 5)
        max_chars_int == news_report_count(a.max_chars, 12000)
        as_article_norm == news_report_as_article(a.as_article)
        feed == Request("rss", NoBody, NoWindow)
        search == Request("serper", NoBody, NoWindow)
        download == Request("article", NoBody, NoWindow)
        \* _fetch_article
        text == strip(page.text)
        article ==
            IF ~page.ok THEN [ok |-> FALSE, error |-> "fetch_failed", text |-> <<>>]
            ELSE IF page.text = <<>>
            THEN [ok |-> FALSE, error |-> "could_not_extract", text |-> <<>>]
            ELSE [ok |-> TRUE, error |-> "",
                  text |-> IF Len(text) > max_chars_int
                           THEN slice_to(text, PyInt(max_chars_int)).items \o <<" ", ".", ".", ".">>
                           ELSE text]
        \* _fetch_google_news_rss, _serper_news_search
        fetched(source, num) == IF source.ok THEN slice_to(source.items, PyInt(num)).items ELSE <<>>
        candidates == fetched(local, 3)
        result(fields, mode, reason, w, l, items, errors, art) ==
            [kind |-> "news", fields |-> fields, mode |-> mode, reason |-> reason,
             world |-> w, local |-> l, items |-> items, errors |-> errors, article |-> art]
    IN  IF bool(a.url)
        THEN [requests |-> <<download>>,
              ret |-> result({"mode", "url", "article"}, "article", "", <<>>, <<>>, <<>>, {}, article)]
        ELSE IF bool(a.query) /\ as_article_norm
        THEN IF ~local.ok
             THEN [requests |-> <<search>>,
                   ret |-> result({"mode", "query", "reason", "detail"}, "article_search_failed",
                                  "serper_error", <<>>, <<>>, <<>>, {}, NoArticle)]
             ELSE IF candidates = <<>>
             THEN [requests |-> <<search>>,
                   ret |-> result({"mode", "query", "reason"}, "article_search_failed",
                                  "no_results", <<>>, <<>>, <<>>, {}, NoArticle)]
             ELSE IF candidates[1].link # <<>>
             THEN [requests |-> <<search, download>>,
                   ret |-> result({"mode", "query", "matched_title", "url", "source", "article"},
                                  "article", "", <<>>, <<>>, <<>>, {}, article)]
             ELSE [requests |-> <<search>>,
                   ret |-> result({"mode", "query", "matched_title", "url", "source", "article"},
                                  "article", "", <<>>, <<>>, <<>>, {},
                                  [ok |-> FALSE, error |-> "no_link_in_result", text |-> <<>>])]
        ELSE IF bool(a.query)
        THEN [requests |-> <<search>>,
              ret |-> result({"mode", "query", "items"} \cup (IF local.ok THEN {} ELSE {"error"}),
                             "news_search", "", <<>>, <<>>, fetched(local, world_num_int), {},
                             NoArticle)]
        ELSE LET errors == brief_errors(world, local)
             IN  [requests |-> <<feed, search>>,
                  ret |-> result({"mode", "location", "world", "local"}
                                     \cup (IF errors # {} THEN {"errors"} ELSE {}),
                                 "daily_brief", "", fetched(world, world_num_int),
                                 fetched(local, local_num_int), <<>>, errors, NoArticle)]

NewsCalls ==
    {[op |-> "news_report", query |-> q, url |-> u, world_num |-> w, local_num |-> l,
      max_chars |-> m, as_article |-> f] :
        q \in {PyNone, PyStr(<<"a", "i">>)}, u \in {PyNone, PyStr(<<"u">>)},
        w \in {PyInt(2), PyStr(<<"1", " ", "i", "t", "e", "m">>), PyInt(0), PyInt(-1), PyStr(<<"m", "a", "n", "y">>)},
        l \in {PyInt(1), PyStr(<<"2">>), PyInt(-2)},
        m \in {PyNone, PyInt(2)}, f \in {PyBool(FALSE), PyStr(<<" ", "Y", "e", "s", " ">>)}}

\* what a source answers: it raises, or returns up to MaxItems items, here
\* numbered; the first item of the search has no link
Answers(source) ==
    {[ok |-> FALSE, items |-> <<>>]}
        \cup {[ok |-> TRUE,
               items |-> [i \in 1..n |->
                            [title |-> <<source>> \o IntStr(i),
                             link |-> IF source = "l" /\ i = 1 THEN <<>>
                                      ELSE <<source>> \o IntStr(i)]]] : n \in 0..MaxItems}

\* the whole operation; locals keeps what the sources it asked answered
NewsReport(world, local, page) ==
    /\ frontend = "news" /\ tpc = "entered"
    /\ LET r == news_report(call, world, local, page)
           asked(source, answer, none) ==
                IF \E i \in 1..Len(r.requests) : r.requests[i].kind = source
                THEN answer ELSE none
           silent == [ok |-> FALSE, items |-> <<>>]
       IN  /\ net' = net \o r.requests
           /\ ret' = r.ret
           /\ locals' = [world |-> asked("rss", world, silent),
                         local |-> asked("serper", local, silent),
                         page |-> asked("article", page, [ok |-> FALSE, text |-> <<>>])]
    /\ tpc' = "returned"
    /\ UNCHANGED <<convvars, call>>

(***************************************************************************)
(* core/langford_service.py called by an arbitrary client                  *)
(***************************************************************************)
ServiceCalls ==
    {[op |-> "init_langford", message |-> <<>>]}
        \cup {[op |-> "run_langford", message |-> m] : m \in TgTexts}

\* the client makes its next call once the previous one has ended
ServiceCall(c) ==
    /\ frontend = "service" /\ tpc \in {"returned", "raised"}
    /\ c.op = "run_langford" => uidc < MaxUtterances
    /\ call' = c
    /\ tpc' = "entered"
    /\ UNCHANGED <<convvars, net, locals, ret>>

ServiceInitLangford_rebuild ==
    /\ frontend = "service" /\ tpc = "entered" /\ call.op = "init_langford"
    /\ butler' = init_langford(NoButler)
    /\ memory' = <<>>
    /\ tpc' = "returned"
    /\ UNCHANGED <<frontend, pc, history, runs, inflight, queue, outs, uidc, call, net, locals, ret>>

\* init_langford(): returns at once when _butler exists; a newly constructed
\* agent starts with an empty memory
ServiceInitLangford ==
    /\ frontend = "service" /\ tpc = "entered" /\ call.op = "init_langford"
    /\ butler' = init_langford(butler)
    /\ memory' = IF butler.built THEN memory ELSE <<>>
    /\ tpc' = "returned"
    /\ UNCHANGED <<frontend, pc, history, runs, inflight, queue, outs, uidc, call, net, locals, ret>>

\* run_langford(message): the assert fails while _butler is None; else the
\* run of _butler returns or raises
ServiceRunLangford(outcome) ==
    /\ frontend = "service" /\ tpc = "entered" /\ call.op = "run_langford"
    /\ IF ~butler.built
       THEN /\ tpc' = "raised"
            /\ UNCHANGED <<memory, runs, uidc>>
       ELSE LET uid == uidc + 1
                req == run_langford(call.message)
            IN  /\ runs' = Append(runs, RunRecord(uid, 0, "langford", call.message, req,
                                                  butler.max_steps, memory))
                /\ memory' = agent_run_end(
                        agent_run_begin(memory, uid, req.task, req.reset), uid, outcome)
                /\ uidc' = uid
                /\ tpc' = IF outcome = "ok" THEN "returned" ELSE "raised"
    /\ UNCHANGED <<frontend, pc, butler, history, inflight, queue, outs, call, net, locals, ret>>

OpsInit ==
    /\ \/ frontend = "coerce" /\ call \in CoerceCalls
       \/ frontend = "resolve" /\ call \in ResolveCalls
       \/ frontend = "mails" /\ call \in MailCalls
       \/ frontend = "news" /\ call \in NewsCalls
       \/ frontend = "service" /\ call \in ServiceCalls
    /\ pc = "tool"
    /\ butler = NoButler
    /\ memory = <<>>
    /\ history = <<>>
    /\ runs = <<>>
    /\ inflight = {}
    /\ queue = <<>>
    /\ outs = <<>>
    /\ uidc = 0
    /\ tpc = "entered"
    /\ net = <<>>
    /\ locals = NoLocals
    /\ ret = NoRet

OpsNext ==
    \/ CreateEventsToBool
    \/ CreateEventsToInt
    \/ CreateEventsExtractDate
    \/ CheckEventsNormalizeDate
    \/ CheckMailsToInt
    \/ NewsReportCount
    \/ NewsReportAsArticle
    \/ \E outcome \in Outcomes, items \in {<<>>, <<"1", "2", "3">>} :
            GetFinancialMarketUpdates(outcome, items)
    \/ WeatherExtractDate
    \/ WeatherExtractHour
    \/ \E parsed \in ParsedMoments : ResolveDateExpression(parsed)
    \/ \E token \in Outcomes, fetch \in Outcomes, messages \in Batches,
          now \in {DateTime(2025, 11, 19, 12, 0, 0, TRUE, 0)} :
            CheckMails(token, fetch, messages, now)
    \/ \E world \in Answers("w"), local \in Answers("l"),
          page \in {[ok |-> FALSE, text |-> <<>>], [ok |-> TRUE, text |-> <<>>],
                    [ok |-> TRUE, text |-> <<" ", "t", "e", "x", "t">>]} :
            NewsReport(world, local, page)
    \/ \E c \in ServiceCalls : ServiceCall(c)
    \/ ServiceInitLangford
    \/ \E outcome \in Outcomes : ServiceRunLangford(outcome)

SpecOps == OpsInit /\ [][OpsNext]_vars

(***************************************************************************)
(* Vocabulary of the properties                                            *)
(***************************************************************************)
BRIEF_UPPER == <<"B", "R", "I", "E", "F">>

purge_words ==
    {<<"p", "u", "r", "g", "e">>, <<"r", "e", "s", "e", "t">>,
     <<"c", "l", "e", "a", "r">>, <<"r", "e", "s", "t", "a", "r", "t">>}

exit_words == {<<"e", "x", "i", "t">>, <<"q", "u", "i", "t">>, <<"q">>}

NonBlank(m) == {k \in 1..Len(m) : m[k] \notin Whitespace}

MinOf(S) == CHOOSE x \in S : \A y \in S : x <= y

MaxOf(S) == CHOOSE x \in S : \A y \in S : x >= y

\* the text between the first and the last non-blank character
Trimmed(m) ==
    IF NonBlank(m) = {} THEN <<>> ELSE SubSeq(m, MinOf(NonBlank(m)), MaxOf(NonBlank(m)))

\* m is the word w in any letter case, W being w in upper case
IsWord(m, w, W) ==
    /\ Len(m) = Len(w)
    /\ \A k \in 1..Len(w) : m[k] = w[k] \/ m[k] = W[k]

IsBriefCommand(m) == IsWord(Trimmed(m), kw_brief, BRIEF_UPPER)

IsPrefix(s, t) == Len(s) <= Len(t) /\ \A k \in 1..Len(s) : s[k] = t[k]

Langford(i) == runs[i].agent = "langford"

ServesLangford == frontend \in {"cli", "telegram"}

Last(s) == s[Len(s)]

(***************************************************************************)
(* C1: a message whose trimmed, lower-cased text is 'brief' makes          *)
(* run_langford run the fixed canned request on a reset session: the       *)
(* context of the brief run holds no earlier turn, and no turn older than  *)
(* the brief is in the context of any later run or in the session.         *)
(***************************************************************************)
C1_BriefResetsSession ==
    \A i \in 1..Len(runs) :
        (Langford(i) /\ IsBriefCommand(runs[i].message)) =>
            /\ runs[i].task = BriefQuery
            /\ runs[i].context = <<TaskStep(runs[i].uid, BriefQuery)>>
            /\ \A j \in (i + 1)..Len(runs) :
                  \A k \in 1..Len(runs[j].context) :
                      runs[j].context[k].uid >= runs[i].uid
            /\ \A k \in 1..Len(memory) : memory[k].uid >= runs[i].uid

\* a brief that follows an answered turn and is followed by a further run
C1_Witness ==
    /\ Len(runs) = 3
    /\ Langford(2) /\ IsBriefCommand(runs[2].message)
    /\ ~IsBriefCommand(runs[1].message)
    /\ Len(runs[2].context) = 1
    /\ Len(runs[3].context) >= 2
    /\ \E o \in 1..Len(outs) : outs[o].uid = runs[1].uid /\ outs[o].kind = "reply"

(***************************************************************************)
(* C2: the brief request of run_langford runs with a step budget strictly  *)
(* greater than the step budget of a normal utterance.                     *)
(***************************************************************************)
C2_BriefBudgetElevated ==
    \A i, j \in 1..Len(runs) :
        (/\ Langford(i) /\ Langford(j)
         /\ IsBriefCommand(runs[i].message)
         /\ ~IsBriefCommand(runs[j].message)) =>
            runs[i].max_steps > runs[j].max_steps

(***************************************************************************)
(* C3: in the Langford CLI loop an utterance that is purge, reset, clear   *)
(* or restart (trimmed, any letter case) clears the session turns, does    *)
(* not invoke the controller runtime, and leaves the loop at its prompt.   *)
(***************************************************************************)
C3_CliPurgeClearsSession ==
    [][\A text \in CliInputs :
          (CliInput(text) /\ lower(Trimmed(text)) \in purge_words) =>
              (memory' = <<>> /\ runs' = runs /\ pc' = "input")]_vars

(***************************************************************************)
(* C4: in both turn loops an utterance that is exit, quit or q ends the    *)
(* loop: no runtime invocation, no assistant reply, no turn appended, and  *)
(* nothing is handled afterwards.                                          *)
(***************************************************************************)
ExitStep ==
    /\ runs' = runs
    /\ memory' = memory
    /\ history' = history
    /\ inflight' = inflight
    /\ outs' = Append(outs, [uid |-> uidc + 1, chat |-> 0, kind |-> "bye"])
    /\ pc' = "exited"

C4_ExitEndsLoop ==
    /\ [][\A text \in CliInputs :
            (CliInput(text) /\ lower(Trimmed(text)) \in exit_words) => ExitStep]_vars
    /\ [][\A text \in CliInputs, o1 \in Outcomes, o2 \in Outcomes :
            (LegacyTurn(text, o1, o2) /\ lower(Trimmed(text)) \in exit_words)
                => ExitStep]_vars
    /\ [][pc = "exited" => UNCHANGED vars]_vars

\* the loop has ended on an exit keyword after at least one handled turn
C4_Witness ==
    /\ frontend \in {"cli", "legacy"}
    /\ pc = "exited"
    /\ Len(runs) >= 1
    /\ Last(outs).kind = "bye" /\ Last(outs).uid > 0
    /\ uidc < MaxUtterances

(***************************************************************************)
(* C5: run_langford treats a message as the brief command exactly when its *)
(* trimmed, case-folded text is 'brief'; any other message is forwarded    *)
(* trimmed and otherwise unchanged, without a session reset.               *)
(***************************************************************************)
C5_BriefExactMatch ==
    \A i \in 1..Len(runs) :
        Langford(i) =>
            IF IsBriefCommand(runs[i].message)
            THEN runs[i].reset /\ runs[i].task = BriefQuery
            ELSE /\ ~runs[i].reset
                 /\ runs[i].task = Trimmed(runs[i].message)
                 /\ Last(runs[i].context) = TaskStep(runs[i].uid, Trimmed(runs[i].message))

\* 'brief me' and ' Hi' were forwarded as normal utterances, after an earlier turn
C5_Witness ==
    \E i, j \in 1..Len(runs) :
        /\ Langford(i) /\ Langford(j)
        /\ Trimmed(runs[i].message) = <<"b", "r", "i", "e", "f", " ", "m", "e">>
        /\ Len(runs[i].context) >= 2
        /\ runs[j].message = <<" ", "H", "i">>
        /\ runs[j].task = <<"H", "i">>

(***************************************************************************)
(* C6: a normal utterance never resets the session (the turns before each  *)
(* step of its handling are a prefix of the turns after it), and no call,  *)
(* brief included, changes the delegate roster or a delegate's operations. *)
(***************************************************************************)
Roster ==
    <<[name |-> "calendar_agent",
       tools |-> <<"check_events", "create_events", "resolve_date_expression">>],
      [name |-> "email_agent", tools |-> <<"check_mails">>],
      [name |-> "news_agent", tools |-> <<"news_report", "get_financial_market_updates">>],
      [name |-> "weather_agent", tools |-> <<"get_weather">>]>>

C6_NormalAppendsOnly ==
    /\ [][ServesLangford =>
            ((runs' = runs \/ ~IsBriefCommand(Last(runs').message))
                => IsPrefix(memory, memory'))]_vars
    /\ [][(ServesLangford /\ butler.built) =>
            (butler' = butler /\ butler.managed_agents = Roster)]_vars

\* a normal run that saw two earlier answered turns, after a brief was handled
C6_Witness ==
    /\ ServesLangford
    /\ Len(runs) = 3
    /\ ~IsBriefCommand(runs[3].message)
    /\ ~IsBriefCommand(runs[2].message)
    /\ IsBriefCommand(runs[1].message)
    /\ Len(runs[3].context) = 5
    /\ Len(memory) = 6

(***************************************************************************)
(* C7: each telegram conversation owns an independent session: the context *)
(* used to answer one chat never holds a turn of another chat, and a brief *)
(* in one chat does not remove the turns of another chat from its session. *)
(***************************************************************************)
ChatOfUid(u) == runs[CHOOSE i \in 1..Len(runs) : runs[i].uid = u].chat

TurnsOfChat(ctx, c) == {k \in 1..Len(ctx) : ChatOfUid(ctx[k].uid) = c}

C7_SessionsIndependent ==
    frontend = "telegram" =>
        \A i \in 1..Len(runs) :
            /\ \A k \in 1..Len(runs[i].context) :
                  ChatOfUid(runs[i].context[k].uid) = runs[i].chat
            /\ \A j \in 1..(i - 1) :
                  (/\ runs[j].chat = runs[i].chat
                   /\ \A b \in (j + 1)..i :
                        runs[b].chat = runs[i].chat => ~IsBriefCommand(runs[b].message))
                      => \E k \in 1..Len(runs[i].context) :
                            runs[i].context[k].uid = runs[j].uid

(***************************************************************************)
(* C8: utterances are handled one at a time and in arrival order: while    *)
(* one utterance is being handled (its run and every delegated step), no   *)
(* other handling is in progress, every earlier run has been answered and  *)
(* no later utterance has begun.                                           *)
(***************************************************************************)
Answered(u) == \E o \in 1..Len(outs) : outs[o].uid = u

C8_OneAtATimeInOrder ==
    ServesLangford =>
        /\ Cardinality(inflight) <= 1
        /\ \A i, j \in 1..Len(runs) : i < j => runs[i].uid < runs[j].uid
        /\ \A h \in inflight :
              /\ Last(runs).uid = h.uid
              /\ \A i \in 1..(Len(runs) - 1) : Answered(runs[i].uid)
              /\ \A q \in 1..Len(queue) : queue[q].uid > h.uid

\* telegram: a delegated step of the second utterance is running while the third waits
C8_Witness ==
    /\ frontend = "telegram"
    /\ Len(runs) = 2 /\ Len(queue) = 1
    /\ \E h \in inflight : h.pc = "run" /\ h.steps >= 1 /\ h.uid = 2
    /\ Answered(1)

(***************************************************************************)
(* Vocabulary of the properties of the calendar operations                 *)
(***************************************************************************)
Posts == {i \in 1..Len(net) : net[i].kind = "POST"}

Unparsable(text) == ~fromisoformat(text).ok

\* start_date or end_date of a create_events call cannot be normalized
CreateDatesUnusable(c) ==
    LET text(v) == IF _to_bool(c.all_day) THEN _extract_date_str(v)
                                          ELSE _extract_datetime_str(v)
    IN  \/ Unparsable(text(c.start_date))
        \/ c.end_date.t # "none" /\ Unparsable(text(c.end_date))

\* date of a check_events call is empty or unparsable, or its end_date is unparsable
CheckDatesUnusable(c) ==
    \/ Unparsable(_normalize_date_input(c.date))
    \/ /\ _normalize_date_input(c.end_date) # <<>>
       /\ Unparsable(_normalize_date_input(c.end_date))

(***************************************************************************)
(* C9: one invocation of create_events issues at most one event-creating   *)
(* POST; a failed POST is not retried and the call returns an error object *)
(* carrying the requested body; no POST is issued when the normalization   *)
(* of start_date or end_date fails.                                        *)
(***************************************************************************)
C9_AtMostOnePost ==
    call.op = "create_events" =>
        /\ Cardinality(Posts) <= 1
        /\ \A i \in Posts :
              /\ tpc = "returned"
              /\ net[i].body = locals.body
              /\ ret.kind = "error" =>
                    (ret.error = "Failed to create event" /\ ret.requested = net[i].body)
        /\ CreateDatesUnusable(call) =>
              /\ Posts = {}
              /\ tpc = "returned" => (ret.kind = "error" /\ ret.requested = NoBody)

\* the single POST failed and the call returned the error object with the body
C9_Witness ==
    /\ call.op = "create_events"
    /\ tpc = "returned"
    /\ Cardinality(Posts) = 1
    /\ ret.kind = "error"
    /\ ret.requested.start.kind = "dateTime"
    /\ ret.requested.end.value # ret.requested.start.value

(***************************************************************************)
(* C10: check_events and create_events normalize and validate every        *)
(* argument before any network-bound step, so an invocation whose date     *)
(* argument is empty or unparsable makes no network request at all (the    *)
(* access-token request included) and returns its validation error.        *)
(***************************************************************************)
C10_ValidatedBeforeNetwork ==
    LET unusable == IF call.op = "create_events" THEN CreateDatesUnusable(call)
                                                 ELSE CheckDatesUnusable(call)
    IN  (frontend = "tool" /\ unusable) =>
            /\ net = <<>>
            /\ tpc # "raised"
            /\ tpc = "returned" => ret.kind = "error"


(***************************************************************************)
(* Vocabulary of the properties of the normalization layer                 *)
(***************************************************************************)
Coerces(param) == frontend = "coerce" /\ tpc = "returned" /\ call.param = param

IntegerParams ==
    {"duration_minutes", "max_emails", "days_back", "world_num", "local_num", "max_chars"}

BooleanParams == {"all_day", "as_article"}

\* the default the specification documents for an integer parameter
DocumentedDefault(param) ==
    CASE param = "duration_minutes" -> 60
      [] param = "max_emails" -> 8
      [] param = "days_back" -> 3
      [] param \in {"world_num", "local_num"} -> 5
      [] param = "max_chars" -> 12000

DecimalChars == {"0", "1", "2", "3", "4", "5", "6", "7", "8", "9"}

\* the integer written by the decimal digits of a text, every other character skipped
RECURSIVE DigitsValue(_, _)
DigitsValue(text, acc) ==
    IF text = <<>> THEN acc
    ELSE IF Head(text) \in DecimalChars
    THEN DigitsValue(Tail(text), 10 * acc + DigitVal(Head(text)))
    ELSE DigitsValue(Tail(text), acc)

HasDigit(text) == \E k \in 1..Len(text) : text[k] \in DecimalChars \cup SuperscriptDigits

\* int() cannot read the digits kept: one of them is no decimal digit
UnparsableDigits(text) == \E k \in 1..Len(text) : text[k] \in SuperscriptDigits

\* a finite float, in tenths, cut to its integer part
Truncated(tenths) ==
    CHOOSE k \in -1000..1000 :
        IF tenths >= 0 THEN 10 * k <= tenths /\ tenths < 10 * (k + 1)
        ELSE 10 * (k - 1) < tenths /\ tenths <= 10 * k

Finite(v) == v.t = "float" /\ v.s = <<>>

\* truthiness: 0, 0.0, None and the empty containers are false
Truthy(v) ==
    CASE v.t = "int" -> v.n # 0
      [] v.t = "float" -> ~(Finite(v) /\ v.n = 0)
      [] v.t = "list" -> Len(v.s) > 0
      [] v.t = "dict" -> DOMAIN v.d # {}
      [] OTHER -> FALSE

TrueWord(text) ==
    \/ IsWord(text, <<"t", "r", "u", "e">>, <<"T", "R", "U", "E">>)
    \/ IsWord(text, <<"y", "e", "s">>, <<"Y", "E", "S">>)
    \/ IsWord(text, <<"y">>, <<"Y">>)
    \/ IsWord(text, <<"o", "n">>, <<"O", "N">>)
    \/ text = <<"1">>

\* the text before the first 'T' of a text
UpToT(text) ==
    IF \E k \in 1..Len(text) : text[k] = "T"
    THEN SubSeq(text, 1, MinOf({k \in 1..Len(text) : text[k] = "T"}) - 1)
    ELSE text

\* the ordered preference list of the date normalizer of an operation
PreferenceList(op) ==
    CASE op = "create_events" -> create_datetime_keys
      [] op = "check_events" -> check_date_keys
      [] op = "get_weather" -> weather_date_keys

\* the keys of the list under which a dict holds a non-blank string
PresentKeys(v, keys) ==
    {k \in 1..Len(keys) :
        /\ keys[k] \in DOMAIN v.d
        /\ v.d[keys[k]].t = "str"
        /\ Trimmed(v.d[keys[k]].s) # <<>>}

(***************************************************************************)
(* C11: for every parameter of every operation and every input value       *)
(* (bool, int, float, empty or nonsense string, dict, None) the coercion   *)
(* never raises and yields a value of the declared type or the default;    *)
(* this holds for num_news of get_financial_market_updates as well.        *)
(***************************************************************************)
C11_CoercionTotal ==
    frontend = "coerce" =>
        /\ tpc = "raised" => locals.scrape = "raise"
        /\ tpc = "returned" =>
              CASE call.param \in BooleanParams -> ret.t = "bool"
                [] call.param \in IntegerParams -> ret.t = "int"
                [] call.param = "num_news" -> ret.t = "dict"
                [] call.param = "time" -> ret.t \in {"int", "none"}
                [] OTHER -> ret.t = "str"

(***************************************************************************)
(* C12: integer normalization (_to_int, _to_int_with_default, the count    *)
(* handling of news_report): a numeric input is truncated to an integer; a *)
(* string has its non-digit characters removed and the remaining digits    *)
(* parsed as one integer; a string without any digit, or an unparsable     *)
(* value, yields the default (60, 8, 3, 5, 5, 12000), never a fault.       *)
(***************************************************************************)
C12_IntegerNormalization ==
    \A param \in IntegerParams :
        Coerces(param) =>
            LET v == call.value
                default == DocumentedDefault(param)
            IN  /\ ret.t = "int"
                /\ v.t = "int" => ret.n = v.n
                /\ Finite(v) => ret.n = Truncated(v.n)
                /\ v.t = "str" =>
                      ret.n = IF HasDigit(v.s) /\ ~UnparsableDigits(v.s)
                              THEN DigitsValue(v.s, 0) ELSE default
                /\ (v.t \in {"none", "dict", "list"} \/ (v.t = "float" /\ ~Finite(v))) =>
                      ret.n = default

\* the digits of '1 of 2' were joined to 12
C12_Witness ==
    /\ Coerces("max_chars")
    /\ call.value = PyStr(<<"1", " ", "o", "f", " ", "2">>)
    /\ ret = PyInt(12)

(***************************************************************************)
(* C13: boolean normalization (_to_bool, the as_article handling of        *)
(* news_report): a boolean is returned unchanged; a string is true exactly *)
(* when its trimmed, lower-cased form is one of true, 1, yes, y, on; every *)
(* other input is decided by its truthiness.                               *)
(***************************************************************************)
C13_BooleanNormalization ==
    \A param \in BooleanParams :
        Coerces(param) =>
            LET v == call.value
            IN  /\ ret.t = "bool"
                /\ v.t = "bool" => ret = v
                /\ v.t = "str" => (ret.n = 1 <=> TrueWord(Trimmed(v.s)))
                /\ v.t \notin {"bool", "str"} => (ret.n = 1 <=> Truthy(v))

\* ' Yes ' was read as true
C13_Witness ==
    /\ Coerces("as_article")
    /\ call.value = PyStr(<<" ", "Y", "e", "s", " ">>)
    /\ ret = PyBool(TRUE)

(***************************************************************************)
(* C14: date normalization (_normalize_date_input of check_events,         *)
(* _extract_date_str of create_events and of check_weather): a string      *)
(* yields its trimmed text before the first 'T'; a dict yields the string  *)
(* of the first present key of the function's preference list; every other *)
(* input (None, a number, a list, a dict with none of the keys) yields the *)
(* empty marker.                                                           *)
(***************************************************************************)
C14_DateNormalization ==
    \A param \in {"start_date", "date"} :
        Coerces(param) =>
            LET v == call.value
                keys == PreferenceList(call.op)
                present == IF v.t = "dict" THEN PresentKeys(v, keys) ELSE {}
            IN  /\ ret.t = "str"
                /\ v.t = "str" => ret.s = UpToT(Trimmed(v.s))
                /\ present # {} => ret.s = UpToT(Trimmed(v.d[keys[MinOf(present)]].s))
                /\ (v.t # "str" /\ present = {}) => ret.s = <<>>

(***************************************************************************)
(* C15: _extract_hour returns None or an integer from 0 to 23 for every    *)
(* input (None, string, dict); a text whose hour is not in that range      *)
(* ('25:00', '-3:00', a date without time) yields None, never a fault.     *)
(***************************************************************************)
C15_HourInRange ==
    Coerces("time") => (ret = PyNone \/ (ret.t = "int" /\ ret.n \in 0..23))


(***************************************************************************)
(* Vocabulary of the properties of the date expression resolver            *)
(***************************************************************************)
Resolved == frontend = "resolve" /\ tpc = "returned"

Succeeded == Resolved /\ ret.d.ok = PyBool(TRUE)

\* the four failure conditions of a resolver call
EmptyExpression == call.expression.t = "none" \/ Trimmed(call.expression.s) = <<>>

InvalidTimezone == call.timezone \notin {PyStr(<<"E", "u", "r", "o", "p", "e", "/", "V", "i", "e", "n", "n", "a">>), PyStr(<<"U", "T", "C">>)}

InvalidAnchor == call.now_iso.t = "str" /\ Unparsable(call.now_iso.s)

\* the parser was asked and found no moment in the expression
UnparsableExpression ==
    ~EmptyExpression /\ ~InvalidTimezone /\ ~InvalidAnchor /\ ~locals.parsed.ok

\* R is the failure result whose error starts with the tag
FailsWith(tag) ==
    /\ ret.d.ok = PyBool(FALSE)
    /\ IsPrefix(tag, ret.d.error.s)
    /\ DOMAIN ret.d \cap {"iso_datetime", "date", "time"} = {}

(***************************************************************************)
(* C16: round trip between resolver and normalization: for every           *)
(* successful result R of resolve_date_expression, normalizing R's         *)
(* iso_datetime string, or R itself passed as a dict, with the date        *)
(* normalizer of check_events, of create_events and of get_weather yields  *)
(* exactly R's date field.                                                 *)
(***************************************************************************)
C16_RoundTrip ==
    Succeeded =>
        \A input \in {ret, ret.d.iso_datetime} :
            /\ _normalize_date_input(input) = ret.d.date.s
            /\ _extract_date_str(input) = ret.d.date.s
            /\ weather_extract_date_str(input) = ret.d.date.s

\* the moment 2025-12-31T23:30:59+00:00 resolved in Europe/Vienna: R's date is
\* the next day
C16_Witness ==
    /\ Succeeded
    /\ locals.parsed = DateTime(2025, 12, 31, 23, 30, 59, TRUE, 0)
    /\ ret.d.iso_datetime = PyStr(<<"2", "0", "2", "6", "-", "0", "1", "-", "0", "1", "T", "0", "0", ":", "3", "0", ":", "5", "9", "+", "0", "1", ":", "0", "0">>)
    /\ ret.d.date = PyStr(<<"2", "0", "2", "6", "-", "0", "1", "-", "0", "1">>)

(***************************************************************************)
(* C17: resolve_date_expression never aborts its caller: an empty or       *)
(* whitespace-only expression, an invalid timezone name, an invalid anchor *)
(* and an unparsable expression each return a result with ok = false and a *)
(* distinct error tag (empty_expression, invalid_timezone,                 *)
(* invalid_now_iso, could_not_parse); a result has ok = true with          *)
(* iso_datetime, date and time only when none of the four occurred.        *)
(***************************************************************************)
C17_ResolverReportsFailure ==
    frontend = "resolve" =>
        /\ tpc # "raised"
        /\ tpc = "returned" =>
              IF EmptyExpression THEN FailsWith(<<"e", "m", "p", "t", "y", "_", "e", "x", "p", "r", "e", "s", "s", "i", "o", "n">>)
              ELSE IF InvalidTimezone THEN FailsWith(<<"i", "n", "v", "a", "l", "i", "d", "_", "t", "i", "m", "e", "z", "o", "n", "e">>)
              ELSE IF InvalidAnchor THEN FailsWith(<<"i", "n", "v", "a", "l", "i", "d", "_", "n", "o", "w", "_", "i", "s", "o">>)
              ELSE IF UnparsableExpression THEN FailsWith(<<"c", "o", "u", "l", "d", "_", "n", "o", "t", "_", "p", "a", "r", "s", "e">>)
              ELSE /\ ret.d.ok = PyBool(TRUE)
                   /\ {"iso_datetime", "date", "time"} \subseteq DOMAIN ret.d
                   /\ "error" \notin DOMAIN ret.d

\* an invalid anchor with a valid expression and zone was reported as invalid_now_iso
C17_Witness ==
    /\ Resolved
    /\ ~EmptyExpression /\ ~InvalidTimezone /\ InvalidAnchor
    /\ ret.d.error = PyStr(<<"i", "n", "v", "a", "l", "i", "d", "_", "n", "o", "w", "_", "i", "s", "o", ":", " ", "e", "x", "c">>)


(***************************************************************************)
(* Vocabulary of the properties of the calendar boundaries                 *)
(***************************************************************************)
\* the day number of the date a text starts with
DayOf(text) ==
    LET moment == fromisoformat(text)
    IN  toordinal(moment.y, moment.m, moment.d)

\* 00:00 UTC of a day, as the query writes it
Midnight(day) == date_isoformat(fromordinal(day)) \o <<"T", "0", "0", ":", "0", "0", ":", "0", "0", "+", "0", "0", ":", "0", "0">>

\* the minute of the wall clock a text names
MinuteOf(text) ==
    LET moment == fromisoformat(text)
    IN  toordinal(moment.y, moment.m, moment.d) * 1440 + moment.hh * 60 + moment.mi

\* the window check_events computed for its query
Window == locals.window

Queries == frontend = "tool" /\ call.op = "check_events" /\ Window # NoWindow

\* create_events normalized a call that names no end
CreatesOpenEnded ==
    /\ frontend = "tool" /\ call.op = "create_events"
    /\ call.end_date.t = "none"
    /\ locals.body # NoBody

\* the duration the call asks for: 60 when unparsable
AskedMinutes ==
    LET v == call.duration_minutes
    IN  CASE v.t = "int" -> v.n
          [] v.t = "str" /\ HasDigit(v.s) -> DigitsValue(v.s, 0)
          [] OTHER -> 60

AsksAllDay ==
    \/ call.all_day = PyBool(TRUE)
    \/ call.all_day.t = "str" /\ TrueWord(Trimmed(call.all_day.s))

(***************************************************************************)
(* C18: check_events with end_date equal to date queries exactly the       *)
(* window [date 00:00, date + 1 day 00:00), the same window as when        *)
(* end_date is omitted; with end_date = date + k days (k >= 0) the window  *)
(* is [date 00:00, date + k + 1 days 00:00).                               *)
(***************************************************************************)
C18_InclusiveDayRange ==
    Queries =>
        LET first == DayOf(_normalize_date_input(call.date))
            end_text == _normalize_date_input(call.end_date)
            k == DayOf(end_text) - first
        IN  /\ Window.timeMin = Midnight(first)
            /\ call.end_date.t = "none" => Window.timeMax = Midnight(first + 1)
            /\ (~Unparsable(end_text) /\ k >= 0) => Window.timeMax = Midnight(first + k + 1)
            /\ (~Unparsable(end_text) /\ k = 0) =>
                  Window = check_events_window([call EXCEPT !.end_date = PyNone]).window

\* the query for date = end_date = 2025-12-05 was sent with the one-day window
C18_Witness ==
    /\ Queries /\ tpc = "returned"
    /\ _normalize_date_input(call.date) = <<"2", "0", "2", "5", "-", "1", "2", "-", "0", "5">>
    /\ _normalize_date_input(call.end_date) = <<"2", "0", "2", "5", "-", "1", "2", "-", "0", "5">>
    /\ \E i \in 1..Len(net) :
          /\ net[i].kind = "GET"
          /\ net[i].window = [timeMin |-> <<"2", "0", "2", "5", "-", "1", "2", "-", "0", "5", "T", "0", "0", ":", "0", "0", ":", "0", "0", "+", "0", "0", ":", "0", "0">>,
                              timeMax |-> <<"2", "0", "2", "5", "-", "1", "2", "-", "0", "6", "T", "0", "0", ":", "0", "0", ":", "0", "0", "+", "0", "0", ":", "0", "0">>]

(***************************************************************************)
(* C19: create_events called with no end_date: an all-day event gets the   *)
(* end date start + 1 day (2025-12-05 gives 2025-12-06); a timed event     *)
(* gets the end start + the normalized duration_minutes (60 when missing   *)
(* or unparsable).                                                         *)
(***************************************************************************)
C19_DefaultEnd ==
    CreatesOpenEnded =>
        LET start == locals.body.start
            end == locals.body.end
        IN  IF AsksAllDay
            THEN /\ start.kind = "date" /\ end.kind = "date"
                 /\ DayOf(end.value) = DayOf(start.value) + 1
                 /\ start.value = <<"2", "0", "2", "5", "-", "1", "2", "-", "0", "5">> => end.value = <<"2", "0", "2", "5", "-", "1", "2", "-", "0", "6">>
            ELSE /\ start.kind = "dateTime" /\ end.kind = "dateTime"
                 /\ MinuteOf(end.value) = MinuteOf(start.value) + AskedMinutes
                 /\ fromisoformat(end.value).off = fromisoformat(start.value).off

\* the all-day event of 2025-12-05 was posted with the end 2025-12-06
C19_Witness ==
    /\ CreatesOpenEnded /\ AsksAllDay
    /\ \E i \in Posts :
          /\ net[i].body.start.value = <<"2", "0", "2", "5", "-", "1", "2", "-", "0", "5">>
          /\ net[i].body.end.value = <<"2", "0", "2", "5", "-", "1", "2", "-", "0", "6">>

(***************************************************************************)
(* Mail selection                                                          *)
(***************************************************************************)
MailsReturned == frontend = "mails" /\ tpc = "returned" /\ ret.error = ""

ReceivedAt(msg) == timestamp(parse_dt(msg.receivedDateTime))

\* x is placed no later than y: higher score, or equal score and not older
RanksBefore(x, y) ==
    \/ score_message(x) > score_message(y)
    \/ score_message(x) = score_message(y) /\ ReceivedAt(x) >= ReceivedAt(y)

Message(e) ==
    [importance |-> e.importance, inferenceClassification |-> e.inferenceClassification,
     isRead |-> e.isRead, receivedDateTime |-> e.receivedDateTime]

\* the messages of the batch that qualify: scored, and received since the cutoff
Qualifying ==
    {locals.messages[i] : i \in {k \in 1..Len(locals.messages) :
        LET msg == locals.messages[k]
        IN  /\ msg.receivedDateTime # <<>> /\ parse_dt(msg.receivedDateTime).ok
            /\ score_message(msg) > 0
            /\ ReceivedAt(msg) >= timestamp(plus_days(locals.now,
                                    -_to_int_with_default(call.days_back, 3)))}}

\* C20: the emails check_mails returns are sorted by descending score and,
\* among equal scores, newest first; when more emails qualify than are
\* returned, every returned email ranks before every qualifying one left out.
C20_SortedByScoreThenRecency ==
    MailsReturned =>
        LET emails == ret.emails
            returned == {Message(emails[i]) : i \in 1..Len(emails)}
        IN  /\ \A i, j \in 1..Len(emails) :
                    i < j => RanksBefore(emails[i], emails[j])
            /\ \A kept \in returned : \A left \in Qualifying \ returned :
                    RanksBefore(kept, left)

\* the normalised max_emails and the cutoff of the invocation
MaxEmails == _to_int_with_default(call.max_emails, 8)

Cutoff == plus_days(locals.now, -_to_int_with_default(call.days_back, 3))

\* C21: whatever the batch, max_emails and days_back, the result of check_mails
\* holds no email of score 0, none received before the cutoff, at most
\* max_emails emails (none for a negative max_emails), and total_returned is
\* the number of returned emails and does not exceed total_checked.
C21_MailResultBounds ==
    (frontend = "mails" /\ tpc = "returned") =>
        /\ \A i \in 1..Len(ret.emails) :
                /\ ret.emails[i].score > 0
                /\ score_message(Message(ret.emails[i])) > 0
                /\ ReceivedAt(ret.emails[i]) >= timestamp(Cutoff)
        /\ Len(ret.emails) <= (IF MaxEmails < 0 THEN 0 ELSE MaxEmails)
        /\ ret.total_returned = Len(ret.emails)
        /\ ret.total_returned <= ret.total_checked

(***************************************************************************)
(* News                                                                    *)
(***************************************************************************)
\* a call that asks for the daily brief, answered
BriefAnswered ==
    frontend = "news" /\ tpc # "entered" /\ ~bool(call.url) /\ ~bool(call.query)

Smaller(a, b) == IF a < b THEN a ELSE b

WorldNum == news_report_count(call.world_num, 5)

LocalNum == news_report_count(call.local_num, 5)

FailedSources ==
    {k \in {"world", "local"} : ~locals[k].ok}

\* C23: a failure of the world source, of the local source or of both never
\* fails the daily brief: the result has mode daily_brief, the items of every
\* source that succeeded, an empty list for every source that failed, and an
\* errors map whose keys are the failed sources, absent when none failed.
C23_BriefDegradesPartially ==
    BriefAnswered =>
        /\ tpc = "returned"
        /\ ret.mode = "daily_brief"
        /\ \A k \in {"world", "local"} :
                IF k \in FailedSources THEN ret[k] = <<>>
                ELSE /\ IsPrefix(ret[k], locals[k].items)
                     /\ (locals[k].items # <<>> /\ (IF k = "world" THEN WorldNum ELSE LocalNum) > 0)
                            => ret[k] # <<>>
        /\ ret.errors = FailedSources
        /\ "errors" \in ret.fields <=> FailedSources # {}

C23_Witness ==
    /\ BriefAnswered /\ tpc = "returned"
    /\ FailedSources = {"world"}
    /\ ret.world = <<>> /\ Len(ret.local) = 1 /\ ret.errors = {"world"}

(***************************************************************************)
(* Upstream failures                                                       *)
(***************************************************************************)
Asked(kind) == \E i \in 1..Len(net) : net[i].kind = kind

\* the invocation met a failure of its upstream provider
UpstreamFailed ==
    /\ tpc # "entered"
    /\ \/ frontend = "mails" /\ (locals.token # "ok" \/ locals.fetch = "raise")
       \/ /\ frontend = "news"
          /\ \/ Asked("rss") /\ ~locals.world.ok
             \/ Asked("serper") /\ ~locals.local.ok
             \/ Asked("article") /\ ~locals.page.ok
       \/ /\ frontend = "coerce" /\ call.op = "get_financial_market_updates"
          /\ locals.scrape # "ok"

\* the value returned tells an error
ReturnsError ==
    /\ tpc = "returned"
    /\ \/ frontend = "mails" /\ ret.error # ""
       \/ /\ frontend = "news"
          /\ \/ ret.errors # {}
             \/ "error" \in ret.fields
             \/ ret.reason # ""
             \/ "article" \in ret.fields /\ ~ret.article.ok
       \/ frontend = "coerce" /\ ret.t = "dict" /\ "error" \in DOMAIN ret.d

\* C24: an operation whose upstream provider fails returns a structured error
\* in its value and never raises: check_mails, news_report and
\* get_financial_market_updates alike.
C24_UpstreamFailureIsData ==
    UpstreamFailed => ReturnsError

(***************************************************************************)
(* Faults at the turn handlers                                             *)
(***************************************************************************)
\* what the handlers print or reply when the run of an utterance raised
FailureMessages ==
    {"[error in backend: {exc}]",
     "Something went wrong in the backend. Please try again in a moment."}

\* the message carries the text of the exception
ShowsFault(kind) == kind = "[error in backend: {exc}]"

Failed(u) == \E o \in 1..Len(outs) : outs[o].uid = u /\ outs[o].kind \in FailureMessages

\* C25: a fault raised while an utterance is handled by cli_langford.repl or
\* telegram_bot.handle_message is caught once and answered by one generic
\* message that does not show the fault's detail, and the handler goes on
\* accepting utterances.
C25_FaultCaughtOnceGeneric ==
    frontend \in {"cli", "telegram"} =>
        \A u \in 1..uidc : Failed(u) =>
            /\ Cardinality({o \in 1..Len(outs) : outs[o].uid = u}) = 1
            /\ \A o \in 1..Len(outs) : outs[o].uid = u => ~ShowsFault(outs[o].kind)
            /\ pc # "crashed"

(***************************************************************************)
(* The supervisor is constructed once                                      *)
(***************************************************************************)
InitReturns == call.op = "init_langford" /\ tpc = "entered" /\ tpc' = "returned"

RunEnds == call.op = "run_langford" /\ tpc = "entered" /\ tpc' # "entered"

\* C26: whatever init_langford and run_langford calls are made, the supervisor
\* and its roster are constructed once: an init_langford call on an existing
\* supervisor changes neither it nor its session, the supervisor once built
\* never changes, and a run_langford call before any init_langford fails
\* without a run of the controller runtime.
C26_ConstructedOnce ==
    [][frontend = "service" =>
          /\ butler.built => butler' = butler
          /\ InitReturns => /\ butler'.built
                            /\ Len(butler'.managed_agents) = 4
                            /\ butler.built => (memory' = memory /\ runs' = runs)
          /\ (RunEnds /\ ~butler.built) =>
                (tpc' = "raised" /\ runs' = runs /\ memory' = memory /\ ~butler'.built)
          /\ runs' # runs => butler.built]_vars

\* a second init_langford call has returned after a run left turns in the session
C26_Witness ==
    /\ frontend = "service" /\ call.op = "init_langford" /\ tpc = "returned"
    /\ runs # <<>> /\ memory # <<>>

(***************************************************************************)
(* The brief keyword in the legacy loop                                    *)
(***************************************************************************)
RunsOf(u) == {i \in 1..Len(runs) : runs[i].uid = u}

TurnsOf(u, role) == {k \in 1..Len(history) : history[k].uid = u /\ history[k].role = role}

\* C27: in the legacy loop a 'brief' utterance is handled by the keyword
\* check alone: the runtime is invoked once, on the brief agent with reset,
\* one user turn and one assistant turn are recorded, and the utterance is
\* not run again on the main agent.
C27_LegacyBriefHandledOnce ==
    (frontend = "legacy" /\ pc # "crashed") =>
        \A u \in 1..uidc :
            (\E i \in RunsOf(u) : IsBriefCommand(runs[i].message)) =>
                /\ Cardinality(RunsOf(u)) = 1
                /\ \A i \in RunsOf(u) : runs[i].agent = "brief" /\ runs[i].reset
                /\ Cardinality(TurnsOf(u, "user")) = 1
                /\ Cardinality(TurnsOf(u, "assistant")) = 1

(***************************************************************************)
(* An unusable end date                                                    *)
(***************************************************************************)
\* check_events has gone past its normalization
CheckNormalized ==
    frontend = "tool" /\ call.op = "check_events" /\ tpc \in {"ready", "returned"}

\* an end_date was supplied and gives no date
UnusableEnd ==
    /\ call.end_date.t # "none"
    /\ LET end_str == _normalize_date_input(call.end_date)
       IN  end_str = <<>> \/ ~fromisoformat(end_str).ok

\* C28: check_events returns a structured error item whenever a supplied
\* end_date cannot be normalized or parsed (a dict without a recognised key
\* and a blank string included), as for an unusable start date; it never
\* queries a single day in its place.
C28_UnusableEndIsError ==
    (CheckNormalized /\ UnusableEnd) =>
        /\ tpc = "returned"
        /\ ret.kind = "error"
        /\ \A i \in 1..Len(net) : net[i].kind # "GET"

(***************************************************************************)
(* Start and end of a created event                                        *)
(***************************************************************************)
\* the instant a payload names, in seconds: the day for an all-day payload
InstantOf(payload) ==
    IF payload.kind = "date" THEN DayOf(payload.value) * 86400
    ELSE timestamp(fromisoformat(payload.value))

\* C29: every event body create_events posts has its end strictly after its
\* start, whatever the end_date, the duration_minutes (0 included) and the
\* all_day setting; a call that would give end <= start returns an error
\* without a POST.
C29_EndAfterStart ==
    frontend = "tool" =>
        \A i \in 1..Len(net) :
            net[i].kind = "POST" =>
                InstantOf(net[i].body.end) > InstantOf(net[i].body.start)

(***************************************************************************)
(* The history of the telegram agent                                       *)
(***************************************************************************)
\* C30: in telegram_agent.run_agent the recorded history alternates user and
\* assistant turns, starting with a user turn, also after runs that raised
\* and were caught by handle_message: each user turn is followed by its
\* assistant turn before the next user turn.
C30_HistoryAlternates ==
    frontend = "telegram_agent" =>
        /\ \A k \in 1..Len(history) :
                history[k].role = (IF k % 2 = 1 THEN "user" ELSE "assistant")
        /\ \A k \in 1..Len(history) :
                (history[k].role = "assistant") => history[k - 1].uid = history[k].uid

====
